---- MODULE Spec2Model ----
(***************************************************************************)
(* Order matching engine of app/services/matching.py together with its two *)
(* callers in app/api/v1/endpoints/trading.py (create_order, cancel_order).*)
(*                                                                         *)
(* The engine runs on one asyncio event loop: code between two awaits is   *)
(* atomic, and every await is a point where another coroutine may run.     *)
(* Each action below is the completion of one await followed by the        *)
(* synchronous code up to the next await.                                  *)
(*                                                                         *)
(* Prices and amounts are Decimals in the source; they are modelled as     *)
(* integers counted in units of the smallest decimal place.                *)
(***************************************************************************)
EXTENDS Integers, Sequences, FiniteSets, TLC

\* ------------------------------------------------------------------ bounds
MaxOrders == 3
MaxPrice == 2
MaxAmount == 2
MaxInFlight == 2
MaxReads == 1
MaxMessages == 1

\* ------------------------------------------------------------ value spaces
Users == {"u1", "u2"}
Symbols == {"BTC/USDT", "ETH/USDT"}
Workers == {"p1", "p2"}
Sockets == {"w1", "w2"}

BUY == "buy"
SELL == "sell"
OrderType == {BUY, SELL}

PENDING == "pending"
PARTIALLY_FILLED == "partially_filled"
FILLED == "filled"
CANCELLED == "cancelled"
OrderStatus == {PENDING, PARTIALLY_FILLED, FILLED, CANCELLED}

\* A nullable value is a sequence: <<>> is None, <<v>> is the value v.
None == <<>>
Some(v) == <<v>>

VARIABLES
    env,            \* the callers' world: who submits orders and who cancels, on
                    \* which symbols,
                    \* with which prices and amounts, and how many of them; which
                    \* websocket clients connect and which of them stop reading;
                    \* the worker processes that gunicorn has started;
                    \* whether prices are quoted to the eighth decimal place
    creating,       \* the Order.create calls of create_order that have not
                    \* returned: the object each was called with, created_at
                    \* stamped, and the worker process that runs the request
    orders,         \* Order rows, immutable columns; the id is the index; with each
                    \* row, the worker process whose create_order made it
    db,             \* Order rows, mutable columns as persisted (status, filled_amount)
    mem,            \* the Python Order object made by Order.create (status, filled_amount)
    active_orders,  \* MatchingEngine.active_orders: list of order objects (by id);
                    \* the list of one worker's engine is the part made of that
                    \* worker's orders (ActiveOrders)
    trades,         \* Trade rows, in creation order
    book,           \* OrderBook rows, one per symbol (created lazily)
    locked,         \* MatchingEngine.lock, of the engine of each worker
    waiters,        \* the calls that have reached `async with self.lock` of each
                    \* worker's engine and not entered, in the order of arrival
    pc,             \* per order: where its create_order/place_order caller is
    loc,            \* per order: locals of its place_order call
    cpc,            \* per user: where that user's cancel_order call is
    cloc,           \* per user: locals of cancel_order
    cancel_ok,      \* ids for which a cancel_order call has returned True
    websocket_connections,  \* MatchingEngine.websocket_connections (list); the
                    \* list of one worker's engine is the part made of the
                    \* connections that worker has accepted (ConnectionsOf)
    handler,        \* per connection: where its trading_websocket handler is,
                    \* the worker that runs it, the symbol of its path, the
                    \* order book it is about to send, and how many messages
                    \* it has received
    reads,          \* the GET order-book requests in progress: worker, symbol,
                    \* where get_order_book is, and its `data`
    broken,         \* connections whose peer is gone: send_json to them raises
    subscribed,     \* connections whose client has sent a "subscribe" message
    sent,           \* the send_json calls that have come back since the lock was
                    \* last acquired, in order: receiver, message, and whether it
                    \* was delivered
    cache           \* cache_service entries "order_book:<symbol>" that have not expired

vars == <<env, creating, orders, db, mem, active_orders, trades, book, locked, waiters,
          pc, loc, cpc, cloc, cancel_ok, websocket_connections, handler, reads, broken,
          subscribed, sent, cache>>

Ids == 1..Len(orders)

\* ----------------------------------------------------------------- helpers
\* mutant of Min: the larger of the two
MinTakesLarger(a, b) == IF a <= b THEN b ELSE a

\* min(a, b)
Min(a, b) == IF a <= b THEN a ELSE b

RECURSIVE RemoveFirst(_, _)
\* list.remove(x): drops the first element equal to x (Model.__eq__ compares pk)
RemoveFirst(lst, x) ==
    IF lst = <<>> THEN <<>>
    ELSE IF Head(lst) = x THEN Tail(lst)
    ELSE <<Head(lst)>> \o RemoveFirst(Tail(lst), x)

\* `x in lst`
InList(lst, x) == \E i \in 1..Len(lst) : lst[i] = x

\* Order.status default and filled_amount default
NewOrderState == [status |-> PENDING, filled_amount |-> 0]

\* locals of place_order and of what it calls: order_book is the object of
\* _update_order_book, data the dict of get_order_book, index and connection
\* the list iterator and the loop variable of the broadcast that is running
NoLocals == [remaining |-> 0, matching_orders |-> <<>>, trade |-> None, trades |-> <<>>,
             order_book |-> None, data |-> None, index |-> 0, connection |-> None]

NoCancelLocals == [worker |-> None, order_id |-> 0, order |-> None,
                   data |-> None, index |-> 0, connection |-> None]

NewBook == [exists |-> FALSE, last_price |-> None, volume_24h |-> 0,
            high_24h |-> None, low_24h |-> None]

\* mutant of CandidateTest: the price of the resting order is not looked at
CandidateTestAnyPrice(order, o) ==
    /\ orders[o].symbol = orders[order].symbol
    /\ orders[o].order_type = (IF orders[order].order_type = BUY THEN SELL ELSE BUY)
    /\ mem[o].status = PENDING

\* mutant of CandidateTest: the symbol of the resting order is not looked at
CandidateTestAnySymbol(order, o) ==
    /\ orders[o].order_type = (IF orders[order].order_type = BUY THEN SELL ELSE BUY)
    /\ IF orders[order].order_type = BUY
       THEN orders[o].price <= orders[order].price
       ELSE orders[o].price >= orders[order].price
    /\ mem[o].status = PENDING

\* MatchingEngine._get_matching_orders
CandidateTest(order, o) ==
    /\ orders[o].symbol = orders[order].symbol
    /\ orders[o].order_type = (IF orders[order].order_type = BUY THEN SELL ELSE BUY)
    /\ IF orders[order].order_type = BUY
       THEN orders[o].price <= orders[order].price
       ELSE orders[o].price >= orders[order].price
    /\ mem[o].status = PENDING

\* `matching_engine = MatchingEngine()` (line 225) is executed by every worker
\* process when it imports the module: self.active_orders of the engine of
\* worker self holds the orders that this worker's place_order calls appended
ActiveOrders(self) ==
    LET Own(o) == orders[o].worker = self
    IN  SelectSeq(active_orders, Own)

GetMatchingOrders(order) ==
    LET Test(o) == CandidateTest(order, o)
    IN  SelectSeq(ActiveOrders(orders[order].worker), Test)

\* mutant of TradeAmount: the whole remainder of the resting order is traded
TradeAmountOfMaker(remaining, matching_order) ==
    orders[matching_order].amount - mem[matching_order].filled_amount

\* lines 68-71: trade_amount
TradeAmount(remaining, matching_order) ==
    Min(remaining, orders[matching_order].amount - mem[matching_order].filled_amount)

\* mutant of TradePrice: the incoming order sets the price
TradePriceOfTaker(order, matching_order) == orders[order].price

\* line 74: trade_price
TradePrice(order, matching_order) == orders[matching_order].price

\* the status written after a fill (place_order, "Update order statuses")
StatusAfterFill(filled, amount) ==
    IF filled = amount THEN FILLED ELSE PARTIALLY_FILLED

\* mutant of UpdateOrderBook: the high is set by the first trade only
UpdateOrderBookHighOnce(b, price, amount) ==
    [exists     |-> TRUE,
     last_price |-> Some(price),
     volume_24h |-> b.volume_24h + amount,
     high_24h   |-> IF b.high_24h = None THEN Some(price) ELSE b.high_24h,
     low_24h    |-> IF b.low_24h = None \/ price < b.low_24h[1]
                    THEN Some(price) ELSE b.low_24h]

\* mutant of UpdateOrderBook: high and low follow the last trade
UpdateOrderBookHighLowLast(b, price, amount) ==
    [exists     |-> TRUE,
     last_price |-> Some(price),
     volume_24h |-> b.volume_24h + amount,
     high_24h   |-> Some(price),
     low_24h    |-> Some(price)]

\* mutant of UpdateOrderBook: the volume is overwritten, not added to
UpdateOrderBookVolumeLast(b, price, amount) ==
    [exists     |-> TRUE,
     last_price |-> Some(price),
     volume_24h |-> amount,
     high_24h   |-> IF b.high_24h = None \/ price > b.high_24h[1]
                    THEN Some(price) ELSE b.high_24h,
     low_24h    |-> IF b.low_24h = None \/ price < b.low_24h[1]
                    THEN Some(price) ELSE b.low_24h]

\* MatchingEngine._update_order_book
UpdateOrderBook(b, price, amount) ==
    [exists     |-> TRUE,
     last_price |-> Some(price),
     volume_24h |-> b.volume_24h + amount,
     high_24h   |-> IF b.high_24h = None \/ price > b.high_24h[1]
                    THEN Some(price) ELSE b.high_24h,
     low_24h    |-> IF b.low_24h = None \/ price < b.low_24h[1]
                    THEN Some(price) ELSE b.low_24h]

\* ------------------------------------------------------------ order book view
\* str(d) of a Decimal d: the text of its digits, one text per value
Str(d) == [str |-> d]

\* -- natural numbers of any size, as their decimal digits, lowest first
Digit == 0..9

Digits[i \in Nat] == IF i = 0 THEN <<>> ELSE <<i % 10>> \o Digits[i \div 10]

\* 2 * n + c
Doubled[n \in Seq(Digit), c \in 0..1] ==
    IF n = <<>> THEN Digits[c]
    ELSE <<(2 * Head(n) + c) % 10>> \o Doubled[Tail(n), (2 * Head(n) + c) \div 10]

\* n * 2^t
DoubledTimes[n \in Seq(Digit), t \in Nat] ==
    IF t = 0 THEN n ELSE DoubledTimes[Doubled[n, 0], t - 1]

\* n + c
Added[n \in Seq(Digit), c \in Nat] ==
    IF c = 0 THEN n
    ELSE IF n = <<>> THEN Digits[c]
    ELSE <<(Head(n) + c) % 10>> \o Added[Tail(n), (Head(n) + c) \div 10]

\* a < b, for a and b of one length, looking from digit i downwards
LessFrom[a \in Seq(Digit), b \in Seq(Digit), i \in Nat] ==
    IF i = 0 THEN FALSE
    ELSE IF a[i] # b[i] THEN a[i] < b[i]
    ELSE LessFrom[a, b, i - 1]

\* a < b
Less(a, b) ==
    IF Len(a) # Len(b) THEN Len(a) < Len(b) ELSE LessFrom[a, b, Len(a)]

\* without zeros at the high end
Stripped[n \in Seq(Digit)] ==
    IF n = <<>> \/ n[Len(n)] # 0 THEN n ELSE Stripped[SubSeq(n, 1, Len(n) - 1)]

\* long division of n by a small d, at digit i with remainder r so far
DivMod[n \in Seq(Digit), d \in Nat, i \in Nat, r \in Nat, q \in Seq(Digit)] ==
    IF i = 0 THEN [quot |-> Stripped[q], rem |-> r]
    ELSE DivMod[n, d, i - 1, (10 * r + n[i]) % d, <<(10 * r + n[i]) \div d>> \o q]

\* -- Decimal and float
\* DecimalField(max_digits=20, decimal_places=8) (models/trading.py lines
\* 21-23): a value is a whole number of units of 10^-8
DecimalPlaces == 8

\* 5^8: 10^8 = 2^8 * 5^8
FiveToPlaces == 390625

\* a Python float has 53 significant bits
MantissaBits == 53

\* 100000000000.00000000, a price of twelve integer digits, in units of 10^-8
BasePrice == <<0, 0, 0, 0, 0, 0, 0, 0, 0, 0, 0, 0, 0, 0, 0, 0, 0, 0, 0, 1>>

\* The Decimal that the number d of the model stands for, in units of 10^-8:
\* d whole units, or, for callers that quote fine prices, 10^11 + d * 10^-8.
DecimalUnits(d, fine) ==
    IF fine THEN Added[BasePrice, d]
    ELSE IF d = 0 THEN <<>>
    ELSE <<0, 0, 0, 0, 0, 0, 0, 0>> \o Digits[d]

\* 2^52 * 5^8 and 2^53
LowestMantissaScaled == DoubledTimes[Digits[FiveToPlaces], MantissaBits - 1]
MantissaLimit == DoubledTimes[<<1>>, MantissaBits]

\* n * 2^k for the least k that makes n / 10^8 * 2^(k + 8) at least 2^52
Scaled[n \in Seq(Digit), k \in Nat] ==
    IF ~Less(n, LowestMantissaScaled) THEN [n |-> n, k |-> k]
    ELSE Scaled[Doubled[n, 0], k + 1]

\* the quotient rounded to the nearest: 5^8 is odd, so no value lies half
\* way between two floats
Rounded(d) ==
    IF 2 * d.rem > FiveToPlaces THEN Added[d.quot, 1] ELSE d.quot

\* a mantissa that the rounding has carried to 2^53 is 2^52 one binade up
Normalized[m \in Seq(Digit), k \in Nat] ==
    IF m = MantissaLimit
    THEN [mantissa |-> DoubledTimes[<<1>>, MantissaBits - 1], k |-> k - 1]
    ELSE [mantissa |-> m, k |-> k]

\* the scaled number divided by 5^8
Mantissa(x) ==
    Normalized[Rounded(DivMod[x.n, FiveToPlaces, Len(x.n), 0, <<>>]), x.k]

\* The float nearest to n * 10^-8 (n > 0 below 10^20): mantissa * 2^-(k + 8)
\* with 2^52 <= mantissa < 2^53.
NearestFloat(n) == Mantissa(Scaled[n, 0])

\* 0.0
FloatZero == [mantissa |-> <<>>, k |-> 0]

\* float(str(d)) for every number of the model, computed once
FloatOfWhole == [d \in 0..(MaxPrice + 2) |->
                   IF d = 0 THEN FloatZero ELSE NearestFloat(DecimalUnits(d, FALSE))]
FloatOfFine == [d \in 0..(MaxPrice + 2) |-> NearestFloat(DecimalUnits(d, TRUE))]

\* x <= y on floats
FloatLeq(x, y) ==
    IF x = FloatZero THEN TRUE
    ELSE IF y = FloatZero THEN FALSE
    ELSE IF x.k # y.k THEN x.k > y.k
    ELSE ~Less(y.mantissa, x.mantissa)

\* float(s) of the text of a price: the nearest float, which differs from
\* the Decimal whenever that has more than 53 significant bits
FloatOf(s) == IF env.fine THEN FloatOfFine[s.str] ELSE FloatOfWhole[s.str]

\* `str(x) if x else None` on a nullable Decimal column: None and 0 are falsy
StrOrNone(x) == IF x = None \/ x[1] = 0 THEN None ELSE Some(Str(x[1]))

RECURSIVE InsertByPrice(_, _, _)
\* one step of the stable sort: o goes behind every element that does not
\* have to come after it (ascending keys, or descending ones with reverse)
InsertByPrice(lst, o, reverse) ==
    IF lst = <<>> THEN <<o>>
    ELSE LET kh == FloatOf(Str(orders[Head(lst)].price))
             ko == FloatOf(Str(orders[o].price))
         IN  IF (IF reverse THEN FloatLeq(ko, kh) ELSE FloatLeq(kh, ko))
             THEN <<Head(lst)>> \o InsertByPrice(Tail(lst), o, reverse)
             ELSE <<o>> \o lst

RECURSIVE SortedByPrice(_, _)
\* sorted(entries, key=lambda x: float(x["price"]), reverse=...): Python's sort
\* is stable, with reverse=True as well
SortedByPrice(lst, reverse) ==
    IF lst = <<>> THEN <<>>
    ELSE InsertByPrice(SortedByPrice(SubSeq(lst, 1, Len(lst) - 1), reverse),
                       lst[Len(lst)], reverse)

\* the filter of the two list comprehensions of get_order_book
ListedTest(symbol, order_type, o) ==
    /\ orders[o].symbol = symbol
    /\ orders[o].order_type = order_type
    /\ mem[o].status = PENDING

\* the orders behind the entries of one side, in the order of the entries
ListedOrders(self, symbol, order_type) ==
    LET Test(o) == ListedTest(symbol, order_type, o)
    IN  SortedByPrice(SelectSeq(ActiveOrders(self), Test), order_type = BUY)

\* one entry of bids / asks
BookEntry(o) == [price  |-> Str(orders[o].price),
                 amount |-> Str(orders[o].amount - mem[o].filled_amount)]

BookSide(self, symbol, order_type) ==
    LET ids == ListedOrders(self, symbol, order_type)
    IN  [i \in 1..Len(ids) |-> BookEntry(ids[i])]

\* get_order_book on a cache miss: the dict `data`
OrderBookData(self, symbol) ==
    [symbol     |-> symbol,
     last_price |-> StrOrNone(book[symbol].last_price),
     volume_24h |-> Str(book[symbol].volume_24h),
     high_24h   |-> StrOrNone(book[symbol].high_24h),
     low_24h    |-> StrOrNone(book[symbol].low_24h),
     bids       |-> BookSide(self, symbol, BUY),
     asks       |-> BookSide(self, symbol, SELL)]

\* ------------------------------------------------------------ get_order_book
\* lines 162-164: what `await cache_service.get(...)` returns to
\* get_order_book, and whether it is taken (`if cached_data`)
CacheGet(symbol) == [hit |-> cache[symbol] # None, data |-> cache[symbol]]

\* line 167: OrderBook.get_or_create(symbol=symbol) makes the row when there
\* is none
GetOrCreate(symbol) == [book EXCEPT ![symbol].exists = TRUE]

\* line 204: cache_service.set(..., expire=1) stores the entry (cache.py
\* lines 19-20); it is there until its second has passed (CacheExpire)
CacheSet(symbol, data) == [cache EXCEPT ![symbol] = Some(data)]

\* ------------------------------------------------------------------ events
\* mutant of SendFailureCaught: the exception of send_json leaves the loop
SendFailureEscapes == FALSE

\* `except:` around send_json in broadcast_trade / broadcast_order_book
SendFailureCaught == TRUE

\* remove_websocket_connection
RemoveConnection(conns, c) == IF InList(conns, c) THEN RemoveFirst(conns, c) ELSE conns

\* self.websocket_connections of the engine of worker self: the connections
\* that this worker's trading_websocket handlers have added, out of conns
ConnectionsOf(self, conns) ==
    LET Own(c) == handler[c].worker = Some(self)
    IN  SelectSeq(conns, Own)

\* `for connection in self.websocket_connections` (lines 37, 49): the list
\* iterator is asked for the element at index i
NextConnection(self, conns, i) ==
    LET own == ConnectionsOf(self, conns)
    IN  IF i <= Len(own) THEN Some(own[i]) ELSE None

\* `await connection.send_json(message)` (lines 39, 51, and line 87 of the
\* handler) returns or raises, unless the peer has stopped reading: then it
\* does not come back
SendCompletes(c) == c \notin env.stalled

\* The send_json to connection c, taken at index i of the list, has come
\* back: it returned, or it raised and `except:` has removed c from the list
\* that is being iterated; the iterator then moves on to index i + 1 of the
\* list as it is now.
AfterSend(self, c, i) ==
    LET ok == c \notin broken
        conns == IF ok \/ ~SendFailureCaught
                 THEN websocket_connections
                 ELSE RemoveConnection(websocket_connections, c)
    IN  [ok |-> ok,
         raised |-> ~ok /\ ~SendFailureCaught,
         connections |-> conns,
         index |-> i + 1,
         connection |-> NextConnection(self, conns, i + 1)]

\* one send_json call, as it is written to the log
Delivery(c, ok, message) == [to |-> c, ok |-> ok, message |-> message]

\* broadcast_trade: the message (without the trade's id and timestamp)
TradeMessage(trade) ==
    [type |-> "trade",
     data |-> [symbol |-> trade.symbol, price |-> Str(trade.price),
               amount |-> Str(trade.amount), buyer_id |-> trade.buyer,
               seller_id |-> trade.seller]]

\* broadcast_order_book: the message
OrderBookMessage(data) == [type |-> "order_book", data |-> data]

\* ------------------------------------------------------------------- state
\* a trading_websocket handler that has not been started; received counts
\* the "subscribe" messages receive_json has returned
NoHandler == [pc |-> "new", worker |-> None, symbol |-> None, data |-> None,
              received |-> 0]

\* everything but the callers' world
InitEngine ==
    /\ creating = {}
    /\ orders = <<>>
    /\ db = <<>>
    /\ mem = <<>>
    /\ active_orders = <<>>
    /\ trades = <<>>
    /\ book = [s \in Symbols |-> NewBook]
    /\ locked = [w \in Workers |-> FALSE]
    /\ waiters = [w \in Workers |-> <<>>]
    /\ pc = <<>>
    /\ loc = <<>>
    /\ cpc = [u \in Users |-> "idle"]
    /\ cloc = [u \in Users |-> NoCancelLocals]
    /\ cancel_ok = {}
    /\ websocket_connections = <<>>
    /\ handler = [c \in Sockets |-> NoHandler]
    /\ reads = <<>>
    /\ broken = {}
    /\ subscribed = {}
    /\ sent = <<>>
    /\ cache = [s \in Symbols |-> None]

\* One symbol and one price, orders submitted and cancelled by one user, two
\* requests at a time.
Init ==
    /\ env = [owners |-> {"u1"}, callers |-> {"u1"}, symbols |-> {"BTC/USDT"},
              prices |-> {1}, amounts |-> 1..MaxAmount,
              max_orders |-> MaxOrders, in_flight |-> MaxInFlight, sockets |-> {},
              stalled |-> {}, workers |-> {"p1"}, fine |-> FALSE]
    /\ InitEngine

\* The same callers, sending what the request model OrderCreate accepts and
\* place_order's preconditions exclude: any Decimal is a price or an amount.
InitUnvalidated ==
    /\ env = [owners |-> {"u1"}, callers |-> {"u1"}, symbols |-> {"BTC/USDT"},
              prices |-> 0..(MaxPrice - 1), amounts |-> -1..(MaxAmount - 1),
              max_orders |-> MaxOrders - 1, in_flight |-> MaxInFlight, sockets |-> {},
              stalled |-> {}, workers |-> {"p1"}, fine |-> FALSE]
    /\ InitEngine

\* the create_order requests in progress: in Order.create or in place_order
InFlight == {o \in Ids : pc[o] \notin {"done", "raised"}}

\* the create_order calls made so far
Created == Len(orders) + Cardinality(creating)

\* --------------------------------------------- create_order -> place_order
\* trading.create_order line 115: Order.create(...) is called. The object is
\* made, created_at (auto_now_add, models/trading.py line 25) is stamped
\* with the time of the call, and the INSERT is awaited. The time is counted
\* in calls.
CreateOrder(worker, user, symbol, order_type, price, amount) ==
    /\ worker \in env.workers
    /\ user \in env.owners
    /\ symbol \in env.symbols
    /\ price \in env.prices
    /\ amount \in env.amounts
    /\ Created < env.max_orders
    /\ Cardinality(InFlight) + Cardinality(creating) < env.in_flight
    /\ creating' = creating \cup {[worker |-> worker, user |-> user, symbol |-> symbol,
                                   order_type |-> order_type, price |-> price,
                                   amount |-> amount, created_at |-> Created + 1]}
    /\ UNCHANGED <<env, orders, db, mem, active_orders, trades, book, locked, waiters,
                   pc, loc, cpc, cloc, cancel_ok, websocket_connections, handler, reads,
                   broken, subscribed, sent, cache>>

\* a place_order call that has reached `async with self.lock` (line 56)
PlaceWaiter(order) == [order |-> order, user |-> ""]

\* a cancel_order call that has reached `async with self.lock` (line 209)
CancelWaiter(user) == [order |-> 0, user |-> user]

\* Order.create returns (line 115): the INSERT has given the row the next id,
\* whichever call was made first. place_order is called with the object
\* (line 123) and reaches the lock (line 56).
OrderCreate(call) ==
    /\ call \in creating
    /\ creating' = creating \ {call}
    /\ orders' = Append(orders, call)
    /\ db' = Append(db, NewOrderState)
    /\ mem' = Append(mem, NewOrderState)
    /\ pc' = Append(pc, "created")
    /\ loc' = Append(loc, NoLocals)
    /\ waiters' = [waiters EXCEPT ![call.worker] = Append(@, PlaceWaiter(Len(orders) + 1))]
    /\ UNCHANGED <<env, active_orders, trades, book, locked, cpc, cloc, cancel_ok,
                   websocket_connections, handler, reads, broken, subscribed, sent,
                   cache>>

\* mutant of Rests: the incoming order is appended whatever remains
RestsAlways(remaining) == TRUE

\* line 116: `if remaining > 0`
Rests(remaining) == remaining > 0

\* mutant of LoopContinues: the loop runs through all candidates
LoopContinuesWhileCandidates(remaining, matching) == matching # <<>>

\* lines 63-65: `for matching_order in matching_orders`, `if remaining <= 0: break`
LoopContinues(remaining, matching) == matching # <<>> /\ remaining > 0

\* Top of the matching loop and the code after it (lines 63-65, 115-120):
\* either the next candidate is taken and Trade.create is awaited, or the
\* loop is left, the order is appended to active_orders when something
\* remains, and broadcast_order_book calls get_order_book, which awaits
\* cache_service.get (line 162).
LoopHead(order, remaining, matching, result) ==
    IF LoopContinues(remaining, matching)
    THEN /\ pc' = [pc EXCEPT ![order] = "trade_create"]
         /\ loc' = [loc EXCEPT ![order] =
                       [NoLocals EXCEPT !.remaining = remaining,
                                        !.matching_orders = matching,
                                        !.trades = result]]
         /\ UNCHANGED active_orders
    ELSE /\ pc' = [pc EXCEPT ![order] = "cache_get"]
         /\ loc' = [loc EXCEPT ![order] =
                       [NoLocals EXCEPT !.remaining = remaining, !.trades = result]]
         /\ active_orders' = IF Rests(remaining)
                             THEN Append(active_orders, order)
                             ELSE active_orders

\* mutant of LockGuard: the lock is not waited for
LockGuardIgnored(self) == TRUE

\* `async with self.lock`: entered only while the lock of this engine is free
LockGuard(self) == ~locked[self]

\* asyncio.Lock hands the lock to its waiters in the order of their arrival
FirstWaiter(self, waiter) == waiters[self] # <<>> /\ Head(waiters[self]) = waiter

\* place_order lines 56-61: the lock is acquired, remaining and the
\* candidates are computed (_get_matching_orders awaits nothing).
PlaceAcquire(order) ==
    /\ order \in Ids
    /\ pc[order] = "created"
    /\ FirstWaiter(orders[order].worker, PlaceWaiter(order))
    /\ LockGuard(orders[order].worker)
    /\ locked' = [locked EXCEPT ![orders[order].worker] = TRUE]
    /\ waiters' = [waiters EXCEPT ![orders[order].worker] = Tail(@)]
    /\ LoopHead(order, orders[order].amount - mem[order].filled_amount,
                GetMatchingOrders(order), <<>>)
    /\ sent' = <<>>
    /\ UNCHANGED <<env, creating, orders, db, mem, trades, book, cpc, cloc, cancel_ok,
                   websocket_connections, handler, reads, broken, subscribed, cache>>

\* lines 67-100: Trade.create returns, then both objects are updated in memory
TradeCreate(order) ==
    /\ order \in Ids
    /\ pc[order] = "trade_create"
    /\ LET matching_order == Head(loc[order].matching_orders)
           trade_amount == TradeAmount(loc[order].remaining, matching_order)
           trade_price == TradePrice(order, matching_order)
           isBuy == orders[order].order_type = BUY
           trade == [symbol     |-> orders[order].symbol,
                     buyer      |-> IF isBuy THEN orders[order].user
                                    ELSE orders[matching_order].user,
                     seller     |-> IF isBuy THEN orders[matching_order].user
                                    ELSE orders[order].user,
                     price      |-> trade_price,
                     amount     |-> trade_amount,
                     buy_order  |-> IF isBuy THEN order ELSE matching_order,
                     sell_order |-> IF isBuy THEN matching_order ELSE order]
           of == mem[order].filled_amount + trade_amount
           mf == mem[matching_order].filled_amount + trade_amount
       IN  /\ trades' = Append(trades, trade)
           /\ mem' = [mem EXCEPT
                 ![order] = [status |-> StatusAfterFill(of, orders[order].amount),
                             filled_amount |-> of],
                 ![matching_order] =
                       [status |-> StatusAfterFill(mf, orders[matching_order].amount),
                        filled_amount |-> mf]]
           /\ loc' = [loc EXCEPT ![order].trade = Some(trade)]
    /\ pc' = [pc EXCEPT ![order] = "save_order"]
    /\ UNCHANGED <<env, creating, waiters, orders, db, active_orders, book, locked, cpc,
                   cloc, cancel_ok, websocket_connections, handler, reads, broken,
                   subscribed, sent, cache>>

\* line 103: await order.save()
SaveOrder(order) ==
    /\ order \in Ids
    /\ pc[order] = "save_order"
    /\ db' = [db EXCEPT ![order] = mem[order]]
    /\ pc' = [pc EXCEPT ![order] = "save_matching_order"]
    /\ UNCHANGED <<env, creating, waiters, orders, mem, active_orders, trades, book,
                   locked, loc, cpc, cloc, cancel_ok, websocket_connections, handler,
                   reads, broken, subscribed, sent, cache>>

\* line 104: await matching_order.save(); _update_order_book is called and
\* awaits OrderBook.get_or_create (line 143)
SaveMatchingOrder(order) ==
    /\ order \in Ids
    /\ pc[order] = "save_matching_order"
    /\ LET matching_order == Head(loc[order].matching_orders)
       IN  db' = [db EXCEPT ![matching_order] = mem[matching_order]]
    /\ pc' = [pc EXCEPT ![order] = "update_order_book"]
    /\ UNCHANGED <<env, creating, waiters, orders, mem, active_orders, trades, book,
                   locked, loc, cpc, cloc, cancel_ok, websocket_connections, handler,
                   reads, broken, subscribed, sent, cache>>

\* lines 143-156: OrderBook.get_or_create returns the row, made when there was
\* none; the object is updated in memory and order_book.save() is awaited
UpdateBook(order) ==
    /\ order \in Ids
    /\ pc[order] = "update_order_book"
    /\ LET trade == loc[order].trade[1]
           s == orders[order].symbol
       IN  /\ book' = GetOrCreate(s)
           /\ loc' = [loc EXCEPT ![order].order_book =
                         Some(UpdateOrderBook(book[s], trade.price, trade.amount))]
    /\ pc' = [pc EXCEPT ![order] = "order_book_save"]
    /\ UNCHANGED <<env, creating, waiters, orders, db, mem, active_orders, trades, locked,
                   cpc, cloc, cancel_ok, websocket_connections, handler, reads, broken,
                   subscribed, sent, cache>>

\* an exception leaves place_order: the `async with` block releases the lock
\* and create_order gets the exception instead of the list of trades
Raise(order) ==
    /\ pc' = [pc EXCEPT ![order] = "raised"]
    /\ locked' = [locked EXCEPT ![orders[order].worker] = FALSE]
    /\ UNCHANGED active_orders

\* What follows a trade event that every connection has been sent: back to
\* the head of the matching loop, with the next candidate.
AfterBroadcastTrade(order, remaining, result) ==
    LoopHead(order, remaining, Tail(loc[order].matching_orders), result)

\* lines 158, 109-113: order_book.save() returns, the trade is appended to
\* the result, remaining is reduced, and broadcast_trade awaits the send_json
\* to the first connection; with no connection it awaits nothing and the
\* loop goes on
SaveBook(order) ==
    /\ order \in Ids
    /\ pc[order] = "order_book_save"
    /\ LET trade == loc[order].trade[1]
           s == orders[order].symbol
           c == NextConnection(orders[order].worker, websocket_connections, 1)
           remaining == loc[order].remaining - trade.amount
           result == Append(loc[order].trades, trade)
       IN  /\ book' = [book EXCEPT ![s] = loc[order].order_book[1]]
           /\ IF c # None
              THEN /\ pc' = [pc EXCEPT ![order] = "broadcast_trade"]
                   /\ loc' = [loc EXCEPT ![order].trades = result,
                                         ![order].remaining = remaining,
                                         ![order].order_book = None,
                                         ![order].index = 1,
                                         ![order].connection = c]
                   /\ UNCHANGED active_orders
              ELSE AfterBroadcastTrade(order, remaining, result)
    /\ UNCHANGED <<env, creating, waiters, orders, db, mem, trades, locked, cpc, cloc,
                   cancel_ok, websocket_connections, handler, reads, broken, subscribed,
                   sent, cache>>

\* line 39: the send_json of broadcast_trade to loc.connection comes back;
\* the next connection is sent to, or the loop of place_order goes on
BroadcastTrade(order) ==
    /\ order \in Ids
    /\ pc[order] = "broadcast_trade"
    /\ LET c == loc[order].connection[1]
           r == AfterSend(orders[order].worker, c, loc[order].index)
       IN  /\ SendCompletes(c)
           /\ websocket_connections' = r.connections
           /\ sent' = Append(sent, Delivery(c, r.ok, TradeMessage(loc[order].trade[1])))
           /\ IF r.raised
              THEN Raise(order) /\ UNCHANGED loc
              ELSE IF r.connection # None
              THEN /\ loc' = [loc EXCEPT ![order].index = r.index,
                                         ![order].connection = r.connection]
                   /\ UNCHANGED <<pc, active_orders, locked>>
              ELSE /\ AfterBroadcastTrade(order, loc[order].remaining, loc[order].trades)
                   /\ UNCHANGED locked
    /\ UNCHANGED <<env, creating, waiters, orders, db, mem, trades, book, cpc, cloc,
                   cancel_ok, handler, reads, broken, subscribed, cache>>

\* line 122: return trades; leaving the `async with` block releases the lock
PlaceReturn(order) ==
    /\ pc' = [pc EXCEPT ![order] = "done"]
    /\ loc' = [loc EXCEPT ![order].data = None, ![order].index = 0,
                          ![order].connection = None]
    /\ locked' = [locked EXCEPT ![orders[order].worker] = FALSE]

\* broadcast_order_book lines 45-51, get_order_book having returned data: the
\* send_json to the first connection is awaited; with no connection the loop
\* awaits nothing and place_order returns
PlaceBroadcast(order, data) ==
    LET c == NextConnection(orders[order].worker, websocket_connections, 1)
    IN  IF c # None
        THEN /\ pc' = [pc EXCEPT ![order] = "broadcast_order_book"]
             /\ loc' = [loc EXCEPT ![order].data = Some(data), ![order].index = 1,
                                   ![order].connection = c]
             /\ UNCHANGED locked
        ELSE PlaceReturn(order)

\* line 162, called from line 120 through line 44: cache_service.get returns
\* the cached order book, or nothing and OrderBook.get_or_create is awaited
PlaceCacheGet(order) ==
    /\ order \in Ids
    /\ pc[order] = "cache_get"
    /\ LET g == CacheGet(orders[order].symbol)
       IN  IF g.hit
           THEN PlaceBroadcast(order, g.data[1])
           ELSE /\ pc' = [pc EXCEPT ![order] = "get_or_create"]
                /\ UNCHANGED <<loc, locked>>
    /\ UNCHANGED active_orders
    /\ UNCHANGED <<env, creating, waiters, orders, db, mem, trades, book, cpc, cloc,
                   cancel_ok, websocket_connections, handler, reads, broken, subscribed,
                   sent, cache>>

\* lines 167-204: OrderBook.get_or_create returns the row, data is computed
\* from it and from the resting orders, and cache_service.set is awaited
PlaceGetOrCreate(order) ==
    /\ order \in Ids
    /\ pc[order] = "get_or_create"
    /\ book' = GetOrCreate(orders[order].symbol)
    /\ loc' = [loc EXCEPT ![order].data =
                  Some(OrderBookData(orders[order].worker, orders[order].symbol))]
    /\ pc' = [pc EXCEPT ![order] = "cache_set"]
    /\ UNCHANGED <<env, creating, waiters, orders, db, mem, active_orders, trades, locked,
                   cpc, cloc, cancel_ok, websocket_connections, handler, reads, broken,
                   subscribed, sent, cache>>

\* lines 204-206: cache_service.set returns, get_order_book returns data and
\* broadcast_order_book starts on the connections
PlaceCacheSet(order) ==
    /\ order \in Ids
    /\ pc[order] = "cache_set"
    /\ cache' = CacheSet(orders[order].symbol, loc[order].data[1])
    /\ PlaceBroadcast(order, loc[order].data[1])
    /\ UNCHANGED <<env, creating, waiters, orders, db, mem, active_orders, trades, book,
                   cpc, cloc, cancel_ok, websocket_connections, handler, reads, broken,
                   subscribed, sent>>

\* line 51: the send_json of broadcast_order_book to loc.connection comes
\* back; the next connection is sent to, or place_order returns
PlaceBroadcastOrderBook(order) ==
    /\ order \in Ids
    /\ pc[order] = "broadcast_order_book"
    /\ LET c == loc[order].connection[1]
           r == AfterSend(orders[order].worker, c, loc[order].index)
       IN  /\ SendCompletes(c)
           /\ websocket_connections' = r.connections
           /\ sent' = Append(sent, Delivery(c, r.ok, OrderBookMessage(loc[order].data[1])))
           /\ IF r.raised
              THEN Raise(order) /\ UNCHANGED loc
              ELSE IF r.connection # None
              THEN /\ loc' = [loc EXCEPT ![order].index = r.index,
                                         ![order].connection = r.connection]
                   /\ UNCHANGED <<pc, locked>>
              ELSE PlaceReturn(order)
    /\ UNCHANGED <<env, creating, waiters, orders, db, mem, active_orders, trades, book,
                   cpc, cloc, cancel_ok, handler, reads, broken, subscribed, cache>>

\* ------------------------------------------------------------ cancel_order
\* trading.cancel_order -> MatchingEngine.cancel_order(order_id, user.id);
\* lines 209-210: the lock is free and nobody waits for it, so it is
\* acquired at once, and Order.get_or_none is awaited
CancelAcquire(self, user, order_id) ==
    /\ self \in env.workers
    /\ cpc[user] = "idle"
    /\ waiters[self] = <<>>
    /\ LockGuard(self)
    /\ locked' = [locked EXCEPT ![self] = TRUE]
    /\ cpc' = [cpc EXCEPT ![user] = "get"]
    /\ cloc' = [cloc EXCEPT ![user] = [NoCancelLocals EXCEPT !.worker = Some(self),
                                                             !.order_id = order_id]]
    /\ sent' = <<>>
    /\ UNCHANGED <<env, creating, waiters, orders, db, mem, active_orders, trades, book,
                   pc, loc, cancel_ok, websocket_connections, handler, reads, broken,
                   subscribed, cache>>

\* mutant of GetOrNone: the row is looked up by id alone
GetOrNoneAnyUser(order_id, user) ==
    IF order_id \in Ids THEN Some(db[order_id]) ELSE None

\* Order.get_or_none(id=order_id, user_id=user_id): a fresh object read from the rows
GetOrNone(order_id, user) ==
    IF order_id \in Ids /\ orders[order_id].user = user
    THEN Some(db[order_id])
    ELSE None

\* mutant of Cancellable: every status can be cancelled
CancellableAlways(status) == TRUE

\* line 211: the statuses cancel_order accepts
Cancellable(status) == status \in {PENDING, PARTIALLY_FILLED}

\* line 211: `if not order or order.status not in [...]`
Refused(order) == order = None \/ ~Cancellable(order[1].status)

\* trading.cancel_order lines 156-159: what the HTTP caller gets
CancelResponse(success) ==
    IF success
    THEN [status_code |-> 200, body |-> "success"]
    ELSE [status_code |-> 404, body |-> "Order not found or cannot be cancelled"]

\* cancel_order is left, by a return or by an exception: the `async with`
\* block releases the lock
CancelLeave(user) ==
    /\ cpc' = [cpc EXCEPT ![user] = "idle"]
    /\ cloc' = [cloc EXCEPT ![user] = NoCancelLocals]
    /\ locked' = [locked EXCEPT ![cloc[user].worker[1]] = FALSE]

\* lines 210-215: Order.get_or_none returns; False is returned, or the status
\* of the object is set and order.save() is awaited
CancelGet(user) ==
    /\ cpc[user] = "get"
    /\ LET order == GetOrNone(cloc[user].order_id, user)
       IN  IF Refused(order)
           THEN CancelLeave(user)
           ELSE /\ cpc' = [cpc EXCEPT ![user] = "save"]
                /\ cloc' = [cloc EXCEPT ![user].order =
                               Some([order[1] EXCEPT !.status = CANCELLED])]
                /\ UNCHANGED locked
    /\ UNCHANGED <<env, creating, waiters, orders, db, mem, active_orders, trades, book,
                   pc, loc, cancel_ok, websocket_connections, handler, reads, broken,
                   subscribed, sent, cache>>

\* lines 215-221: order.save() returns, the order is removed from
\* active_orders, and broadcast_order_book calls get_order_book, which awaits
\* cache_service.get (line 162)
CancelSave(user) ==
    /\ cpc[user] = "save"
    /\ LET id == cloc[user].order_id
       IN  /\ db' = [db EXCEPT ![id] = cloc[user].order[1]]
           /\ active_orders' = IF InList(ActiveOrders(cloc[user].worker[1]), id)
                               THEN RemoveFirst(active_orders, id)
                               ELSE active_orders
    /\ cpc' = [cpc EXCEPT ![user] = "cache_get"]
    /\ UNCHANGED <<env, creating, waiters, orders, mem, trades, book, locked, pc, loc,
                   cloc, cancel_ok, websocket_connections, handler, reads, broken,
                   subscribed, sent, cache>>

\* line 223: return True
CancelReturn(user) ==
    /\ cancel_ok' = cancel_ok \cup {cloc[user].order_id}
    /\ CancelLeave(user)

\* an exception leaves cancel_order
CancelRaise(user) ==
    /\ cancel_ok' = cancel_ok
    /\ CancelLeave(user)

\* broadcast_order_book lines 45-51 in cancel_order: the first send_json is
\* awaited; with no connection the loop awaits nothing and True is returned
CancelBroadcast(user, data) ==
    LET c == NextConnection(cloc[user].worker[1], websocket_connections, 1)
    IN  IF c # None
        THEN /\ cpc' = [cpc EXCEPT ![user] = "broadcast_order_book"]
             /\ cloc' = [cloc EXCEPT ![user].data = Some(data), ![user].index = 1,
                                     ![user].connection = c]
             /\ UNCHANGED <<locked, cancel_ok>>
        ELSE CancelReturn(user)

\* the symbol of the order that cancel_order has read
CancelSymbol(user) == orders[cloc[user].order_id].symbol

\* line 162, called from line 221 through line 44
CancelCacheGet(user) ==
    /\ cpc[user] = "cache_get"
    /\ LET g == CacheGet(CancelSymbol(user))
       IN  IF g.hit
           THEN CancelBroadcast(user, g.data[1])
           ELSE /\ cpc' = [cpc EXCEPT ![user] = "get_or_create"]
                /\ UNCHANGED <<cloc, locked, cancel_ok>>
    /\ UNCHANGED <<env, creating, waiters, orders, db, mem, active_orders, trades, book,
                   pc, loc, websocket_connections, handler, reads, broken, subscribed,
                   sent, cache>>

\* lines 167-204 in cancel_order
CancelGetOrCreate(user) ==
    /\ cpc[user] = "get_or_create"
    /\ book' = GetOrCreate(CancelSymbol(user))
    /\ cloc' = [cloc EXCEPT ![user].data =
                   Some(OrderBookData(cloc[user].worker[1], CancelSymbol(user)))]
    /\ cpc' = [cpc EXCEPT ![user] = "cache_set"]
    /\ UNCHANGED <<env, creating, waiters, orders, db, mem, active_orders, trades, locked,
                   pc, loc, cancel_ok, websocket_connections, handler, reads, broken,
                   subscribed, sent, cache>>

\* lines 204-206 in cancel_order
CancelCacheSet(user) ==
    /\ cpc[user] = "cache_set"
    /\ cache' = CacheSet(CancelSymbol(user), cloc[user].data[1])
    /\ CancelBroadcast(user, cloc[user].data[1])
    /\ UNCHANGED <<env, creating, waiters, orders, db, mem, active_orders, trades, book,
                   pc, loc, websocket_connections, handler, reads, broken, subscribed,
                   sent>>

\* line 51 in cancel_order: the send_json to cloc.connection comes back; the
\* next connection is sent to, or True is returned
CancelBroadcastOrderBook(user) ==
    /\ cpc[user] = "broadcast_order_book"
    /\ LET c == cloc[user].connection[1]
           r == AfterSend(cloc[user].worker[1], c, cloc[user].index)
       IN  /\ SendCompletes(c)
           /\ websocket_connections' = r.connections
           /\ sent' = Append(sent, Delivery(c, r.ok, OrderBookMessage(cloc[user].data[1])))
           /\ IF r.raised
              THEN CancelRaise(user)
              ELSE IF r.connection # None
              THEN /\ cloc' = [cloc EXCEPT ![user].index = r.index,
                                           ![user].connection = r.connection]
                   /\ UNCHANGED <<cpc, locked, cancel_ok>>
              ELSE CancelReturn(user)
    /\ UNCHANGED <<env, creating, waiters, orders, db, mem, active_orders, trades, book,
                   pc, loc, handler, reads, broken, subscribed, cache>>

\* ---------------------------------------------------- websocket connections
\* trading_websocket lines 79-84: accept returns, add_websocket_connection
\* appends the connection to the list of this worker's engine, and
\* receive_json is awaited; every connection is a WebSocket object of its own
WsConnect(self, c, symbol) ==
    /\ self \in env.workers
    /\ c \in env.sockets
    /\ symbol \in env.symbols
    /\ handler[c].pc = "new"
    /\ websocket_connections' = Append(websocket_connections, c)
    /\ handler' = [handler EXCEPT ![c] = [NoHandler EXCEPT !.pc = "receive_json",
                                                           !.worker = Some(self),
                                                           !.symbol = Some(symbol)]]
    /\ UNCHANGED <<env, creating, waiters, orders, db, mem, active_orders, trades, book,
                   locked, pc, loc, cpc, cloc, cancel_ok, reads, broken, subscribed, sent,
                   cache>>

\* the handler of c has been started and has not ended
Open(c) == handler[c].pc \notin {"new", "closed"}

\* the peer of a connection goes away: from now on send_json and
\* receive_json on it raise
WsBreak(c) ==
    /\ Open(c)
    /\ c \notin broken
    /\ broken' = broken \cup {c}
    /\ UNCHANGED <<env, creating, waiters, orders, db, mem, active_orders, trades, book,
                   locked, pc, loc, cpc, cloc, cancel_ok, websocket_connections, handler,
                   reads, subscribed, sent, cache>>

\* trading_websocket lines 91-92: `except:` removes the connection, and the
\* handler ends
HandlerEnds(c) ==
    /\ websocket_connections' = RemoveConnection(websocket_connections, c)
    /\ handler' = [handler EXCEPT ![c].pc = "closed", ![c].data = None]

\* line 84: receive_json raises because the peer is gone
WsClose(c) ==
    /\ handler[c].pc = "receive_json"
    /\ c \in broken
    /\ HandlerEnds(c)
    /\ UNCHANGED <<env, creating, waiters, orders, db, mem, active_orders, trades, book,
                   locked, pc, loc, cpc, cloc, cancel_ok, reads, broken, subscribed, sent,
                   cache>>

\* lines 84-86: receive_json returns {"type": "subscribe"}; get_order_book is
\* called for the symbol of the path and awaits cache_service.get
WsSubscribe(c) ==
    /\ handler[c].pc = "receive_json"
    /\ c \notin broken
    /\ handler[c].received < MaxMessages
    /\ handler' = [handler EXCEPT ![c].pc = "cache_get",
                                  ![c].received = handler[c].received + 1]
    /\ subscribed' = subscribed \cup {c}
    /\ UNCHANGED <<env, creating, waiters, orders, db, mem, active_orders, trades, book,
                   locked, pc, loc, cpc, cloc, cancel_ok, websocket_connections, reads,
                   broken, sent, cache>>

\* lines 84-85: receive_json returns a message that has no "type", or the
\* text received is no JSON: data["type"] or receive_json raises
WsBadMessage(c) ==
    /\ handler[c].pc = "receive_json"
    /\ c \notin broken
    /\ HandlerEnds(c)
    /\ UNCHANGED <<env, creating, waiters, orders, db, mem, active_orders, trades, book,
                   locked, pc, loc, cpc, cloc, cancel_ok, reads, broken, subscribed, sent,
                   cache>>

\* the reply of line 87 is awaited
WsReply(c, data) ==
    handler' = [handler EXCEPT ![c].pc = "send_json", ![c].data = Some(data)]

\* line 162, called from line 86 of the handler
WsCacheGet(c) ==
    /\ handler[c].pc = "cache_get"
    /\ LET g == CacheGet(handler[c].symbol[1])
       IN  IF g.hit
           THEN WsReply(c, g.data[1])
           ELSE handler' = [handler EXCEPT ![c].pc = "get_or_create"]
    /\ UNCHANGED <<env, creating, waiters, orders, db, mem, active_orders, trades, book,
                   locked, pc, loc, cpc, cloc, cancel_ok, websocket_connections, reads,
                   broken, subscribed, sent, cache>>

\* lines 167-204 in the handler
WsGetOrCreate(c) ==
    /\ handler[c].pc = "get_or_create"
    /\ book' = GetOrCreate(handler[c].symbol[1])
    /\ handler' = [handler EXCEPT
                      ![c].pc = "cache_set",
                      ![c].data = Some(OrderBookData(handler[c].worker[1],
                                                     handler[c].symbol[1]))]
    /\ UNCHANGED <<env, creating, waiters, orders, db, mem, active_orders, trades, locked,
                   pc, loc, cpc, cloc, cancel_ok, websocket_connections, reads, broken,
                   subscribed, sent, cache>>

\* lines 204-206 in the handler, then line 87: send_json is awaited
WsCacheSet(c) ==
    /\ handler[c].pc = "cache_set"
    /\ cache' = CacheSet(handler[c].symbol[1], handler[c].data[1])
    /\ handler' = [handler EXCEPT ![c].pc = "send_json"]
    /\ UNCHANGED <<env, creating, waiters, orders, db, mem, active_orders, trades, book,
                   locked, pc, loc, cpc, cloc, cancel_ok, websocket_connections, reads,
                   broken, subscribed, sent>>

\* line 87: the send_json of the reply comes back: it returned and
\* receive_json is awaited again, or it raised and the handler ends
WsSend(c) ==
    /\ handler[c].pc = "send_json"
    /\ SendCompletes(c)
    /\ sent' = Append(sent, Delivery(c, c \notin broken,
                                     OrderBookMessage(handler[c].data[1])))
    /\ IF c \notin broken
       THEN /\ handler' = [handler EXCEPT ![c].pc = "receive_json", ![c].data = None]
            /\ UNCHANGED websocket_connections
       ELSE HandlerEnds(c)
    /\ UNCHANGED <<env, creating, waiters, orders, db, mem, active_orders, trades, book,
                   locked, pc, loc, cpc, cloc, cancel_ok, reads, broken, subscribed,
                   cache>>

\* ------------------------------------------------------------------- cache
\* the one-second expiry of a cached order book (cache_service.set, expire=1)
CacheExpire(symbol) ==
    /\ cache[symbol] # None
    /\ cache' = [cache EXCEPT ![symbol] = None]
    /\ UNCHANGED <<env, creating, waiters, orders, db, mem, active_orders, trades, book,
                   locked, pc, loc, cpc, cloc, cancel_ok, websocket_connections, handler,
                   reads, broken, subscribed, sent>>

\* ----------------------------------- trading.get_order_book (GET /orderbook)
\* the request at position k is answered and leaves the requests in progress
Answered(k) == SubSeq(reads, 1, k - 1) \o SubSeq(reads, k + 1, Len(reads))

\* trading.get_order_book lines 240-253: a request arrives at worker self;
\* get_order_book is called, takes no lock and awaits cache_service.get
ReadOrderBook(self, symbol) ==
    /\ self \in env.workers
    /\ symbol \in env.symbols
    /\ Len(reads) < MaxReads
    /\ reads' = Append(reads, [worker |-> self, symbol |-> symbol, pc |-> "cache_get",
                               data |-> None])
    /\ UNCHANGED <<env, creating, waiters, orders, db, mem, active_orders, trades, book,
                   locked, pc, loc, cpc, cloc, cancel_ok, websocket_connections, handler,
                   broken, subscribed, sent, cache>>

\* line 162 in a request: the cached order book is returned, or
\* OrderBook.get_or_create is awaited
ReadCacheGet(k) ==
    /\ k \in 1..Len(reads)
    /\ reads[k].pc = "cache_get"
    /\ LET g == CacheGet(reads[k].symbol)
       IN  reads' = IF g.hit
                    THEN Answered(k)
                    ELSE [reads EXCEPT ![k].pc = "get_or_create"]
    /\ UNCHANGED <<env, creating, waiters, orders, db, mem, active_orders, trades, book,
                   locked, pc, loc, cpc, cloc, cancel_ok, websocket_connections, handler,
                   broken, subscribed, sent, cache>>

\* lines 167-204 in a request
ReadGetOrCreate(k) ==
    /\ k \in 1..Len(reads)
    /\ reads[k].pc = "get_or_create"
    /\ book' = GetOrCreate(reads[k].symbol)
    /\ reads' = [reads EXCEPT ![k].pc = "cache_set",
                              ![k].data = Some(OrderBookData(reads[k].worker,
                                                             reads[k].symbol))]
    /\ UNCHANGED <<env, creating, waiters, orders, db, mem, active_orders, trades, locked,
                   pc, loc, cpc, cloc, cancel_ok, websocket_connections, handler, broken,
                   subscribed, sent, cache>>

\* lines 204-206 in a request: data is cached and returned
ReadCacheSet(k) ==
    /\ k \in 1..Len(reads)
    /\ reads[k].pc = "cache_set"
    /\ cache' = CacheSet(reads[k].symbol, reads[k].data[1])
    /\ reads' = Answered(k)
    /\ UNCHANGED <<env, creating, waiters, orders, db, mem, active_orders, trades, book,
                   locked, pc, loc, cpc, cloc, cancel_ok, websocket_connections, handler,
                   broken, subscribed, sent>>

\* -------------------------------------------------- persistence failures
\* the awaits of the matching loop that go to the store: Trade.create (77),
\* order.save (103), matching_order.save (104), and the two of
\* _update_order_book (107): OrderBook.get_or_create (143), order_book.save (158)
PersistenceCalls == {"trade_create", "save_order", "save_matching_order",
                     "update_order_book", "order_book_save"}

\* The store is unreachable: the pending persistence call of place_order
\* raises. Nothing in place_order catches it, so it leaves the loop and the
\* function with the state that the statements before the call have made.
PersistenceFailure(order) ==
    /\ order \in Ids
    /\ pc[order] \in PersistenceCalls
    /\ Raise(order)
    /\ UNCHANGED <<env, creating, waiters, orders, db, mem, trades, book, loc, cpc, cloc,
                   cancel_ok, websocket_connections, handler, reads, broken, subscribed,
                   sent, cache>>

\* ------------------------------------------------------- cache failures
\* the awaits of get_order_book that go to the cache server:
\* cache_service.get (162) and cache_service.set (204)
CacheCalls == {"cache_get", "cache_set"}

\* The cache server is out of reach: cache_service.get and cache_service.set
\* (cache.py lines 16-20) await the Redis call and catch nothing, and neither
\* get_order_book nor broadcast_order_book nor place_order does: the
\* exception leaves place_order.
PlaceCacheFailure(order) ==
    /\ order \in Ids
    /\ pc[order] \in CacheCalls
    /\ Raise(order)
    /\ UNCHANGED <<env, creating, waiters, orders, db, mem, trades, book, loc, cpc, cloc,
                   cancel_ok, websocket_connections, handler, reads, broken, subscribed,
                   sent, cache>>

\* the same in cancel_order, after the cancellation has been saved
CancelCacheFailure(user) ==
    /\ cpc[user] \in CacheCalls
    /\ CancelRaise(user)
    /\ UNCHANGED <<env, creating, waiters, orders, db, mem, active_orders, trades, book,
                   pc, loc, websocket_connections, handler, reads, broken, subscribed,
                   sent, cache>>

\* the same in the websocket handler: `except:` (lines 91-92) removes the
\* connection
WsCacheFailure(c) ==
    /\ handler[c].pc \in CacheCalls
    /\ HandlerEnds(c)
    /\ UNCHANGED <<env, creating, waiters, orders, db, mem, active_orders, trades, book,
                   locked, pc, loc, cpc, cloc, cancel_ok, reads, broken, subscribed, sent,
                   cache>>

\* the same in a request for the order book: the exception is the answer
ReadCacheFailure(k) ==
    /\ k \in 1..Len(reads)
    /\ reads[k].pc \in CacheCalls
    /\ reads' = Answered(k)
    /\ UNCHANGED <<env, creating, waiters, orders, db, mem, active_orders, trades, book,
                   locked, pc, loc, cpc, cloc, cancel_ok, websocket_connections, handler,
                   broken, subscribed, sent, cache>>

\* -------------------------------------------------------------------- spec
\* The callers of create_order and cancel_order, with no websocket client.
Next ==
    \/ \E w \in env.workers, u \in env.owners, s \in env.symbols, t \in OrderType,
          p \in env.prices, a \in env.amounts :
          CreateOrder(w, u, s, t, p, a)
    \/ \E call \in creating : OrderCreate(call)
    \/ \E o \in 1..MaxOrders : PlaceAcquire(o)
    \/ \E o \in 1..MaxOrders : TradeCreate(o)
    \/ \E o \in 1..MaxOrders : SaveOrder(o)
    \/ \E o \in 1..MaxOrders : SaveMatchingOrder(o)
    \/ \E o \in 1..MaxOrders : UpdateBook(o)
    \/ \E o \in 1..MaxOrders : SaveBook(o)
    \/ \E o \in 1..MaxOrders : PlaceCacheGet(o)
    \/ \E o \in 1..MaxOrders : PlaceGetOrCreate(o)
    \/ \E o \in 1..MaxOrders : PlaceCacheSet(o)
    \/ \E w \in env.workers, u \in env.callers, id \in 1..MaxOrders :
          CancelAcquire(w, u, id)
    \/ \E u \in Users : CancelGet(u)
    \/ \E u \in Users : CancelSave(u)
    \/ \E u \in Users : CancelCacheGet(u)
    \/ \E u \in Users : CancelGetOrCreate(u)
    \/ \E u \in Users : CancelCacheSet(u)
    \/ \E s \in env.symbols : CacheExpire(s)

Spec == Init /\ [][Next]_vars

\* The same callers quoting several prices, one request at a time.
InitPrices ==
    /\ env = [owners |-> {"u1"}, callers |-> {"u1"}, symbols |-> {"BTC/USDT"},
              prices |-> 1..MaxPrice, amounts |-> 1..MaxAmount,
              max_orders |-> MaxOrders, in_flight |-> MaxInFlight - 1, sockets |-> {},
              stalled |-> {}, workers |-> {"p1"}, fine |-> FALSE]
    /\ InitEngine

SpecPrices == InitPrices /\ [][Next]_vars

SpecUnvalidated == InitUnvalidated /\ [][Next]_vars

\* the send_json calls of the broadcasts come back
NextSends ==
    \/ \E o \in 1..MaxOrders : BroadcastTrade(o)
    \/ \E o \in 1..MaxOrders : PlaceBroadcastOrderBook(o)
    \/ \E u \in Users : CancelBroadcastOrderBook(u)

\* Two websocket clients, so that a broadcast has a connection before and
\* behind a failing one.
InitSubscribers ==
    /\ env = [owners |-> {"u1"}, callers |-> {"u1"}, symbols |-> {"BTC/USDT"},
              prices |-> {1}, amounts |-> 1..MaxAmount,
              max_orders |-> MaxOrders - 1, in_flight |-> MaxInFlight,
              sockets |-> {"w1", "w2"},
              stalled |-> {}, workers |-> {"p1"}, fine |-> FALSE]
    /\ InitEngine

NextSubscribers ==
    \/ Next
    \/ NextSends
    \/ \E w \in env.workers, c \in env.sockets, s \in env.symbols : WsConnect(w, c, s)
    \/ \E c \in env.sockets : WsBreak(c)
    \/ \E c \in env.sockets : WsClose(c)

SpecSubscribers == InitSubscribers /\ [][NextSubscribers]_vars

\* A websocket client connects and goes away, and the order book is asked
\* for while operations run.
InitEvents ==
    /\ env = [owners |-> {"u1"}, callers |-> Users, symbols |-> {"BTC/USDT"},
              prices |-> {1}, amounts |-> 1..MaxAmount,
              max_orders |-> MaxOrders - 1, in_flight |-> MaxInFlight, sockets |-> {"w1"},
              stalled |-> {}, workers |-> {"p1"}, fine |-> FALSE]
    /\ InitEngine

NextEvents ==
    \/ NextSubscribers
    \/ \E w \in env.workers, s \in env.symbols : ReadOrderBook(w, s)
    \/ \E k \in 1..MaxReads : ReadCacheGet(k)
    \/ \E k \in 1..MaxReads : ReadGetOrCreate(k)
    \/ \E k \in 1..MaxReads : ReadCacheSet(k)

SpecEvents == InitEvents /\ [][NextEvents]_vars

\* One websocket client follows operations that make up to two trades each;
\* all orders are at one price.
InitOrdering ==
    /\ env = [owners |-> {"u1"}, callers |-> {"u1"}, symbols |-> {"BTC/USDT"},
              prices |-> {1}, amounts |-> 1..MaxAmount,
              max_orders |-> MaxOrders, in_flight |-> MaxInFlight - 1, sockets |-> {"w1"},
              stalled |-> {}, workers |-> {"p1"}, fine |-> FALSE]
    /\ InitEngine

SpecOrdering == InitOrdering /\ [][NextSubscribers]_vars

\* The store may become unreachable while place_order is matching.
InitFailures ==
    /\ env = [owners |-> {"u1"}, callers |-> {"u1"}, symbols |-> {"BTC/USDT"},
              prices |-> 1..MaxPrice, amounts |-> 1..MaxAmount,
              max_orders |-> MaxOrders - 1, in_flight |-> MaxInFlight, sockets |-> {},
              stalled |-> {}, workers |-> {"p1"}, fine |-> FALSE]
    /\ InitEngine

NextFailures ==
    \/ Next
    \/ \E o \in 1..MaxOrders : PersistenceFailure(o)

SpecFailures == InitFailures /\ [][NextFailures]_vars

\* trading.cancel_order calls MatchingEngine.cancel_order, which reaches
\* `async with self.lock` (line 209) and waits there while the lock is held
CancelCall(self, user, order_id) ==
    /\ self \in env.workers
    /\ cpc[user] = "idle"
    /\ cpc' = [cpc EXCEPT ![user] = "call"]
    /\ cloc' = [cloc EXCEPT ![user] = [NoCancelLocals EXCEPT !.worker = Some(self),
                                                             !.order_id = order_id]]
    /\ waiters' = [waiters EXCEPT ![self] = Append(@, CancelWaiter(user))]
    /\ UNCHANGED <<env, creating, orders, db, mem, active_orders, trades, book, locked,
                   pc, loc, cancel_ok, websocket_connections, handler, reads, broken,
                   subscribed, sent, cache>>

\* line 209: the waiting cancel_order acquires the lock
CancelEnter(user) ==
    /\ cpc[user] = "call"
    /\ FirstWaiter(cloc[user].worker[1], CancelWaiter(user))
    /\ LockGuard(cloc[user].worker[1])
    /\ locked' = [locked EXCEPT ![cloc[user].worker[1]] = TRUE]
    /\ waiters' = [waiters EXCEPT ![cloc[user].worker[1]] = Tail(@)]
    /\ cpc' = [cpc EXCEPT ![user] = "get"]
    /\ sent' = <<>>
    /\ UNCHANGED <<env, creating, orders, db, mem, active_orders, trades, book, pc, loc,
                   cloc, cancel_ok, websocket_connections, handler, reads, broken,
                   subscribed, cache>>

\* the awaits of place_order after the lock is acquired: each returns or raises
PlaceStep(o) ==
    \/ TradeCreate(o)
    \/ SaveOrder(o)
    \/ SaveMatchingOrder(o)
    \/ UpdateBook(o)
    \/ SaveBook(o)
    \/ BroadcastTrade(o)
    \/ PlaceCacheGet(o)
    \/ PlaceGetOrCreate(o)
    \/ PlaceCacheSet(o)
    \/ PlaceBroadcastOrderBook(o)
    \/ PersistenceFailure(o)

\* the awaits of cancel_order after the lock is acquired
CancelStep(u) ==
    \/ CancelGet(u)
    \/ CancelSave(u)
    \/ CancelCacheGet(u)
    \/ CancelGetOrCreate(u)
    \/ CancelCacheSet(u)
    \/ CancelBroadcastOrderBook(u)

\* Callers wait for the lock; a websocket client connects and reads what it
\* is sent; every persistence call of the matching loop returns or raises.
InitProgress ==
    /\ env = [owners |-> {"u1"}, callers |-> {"u1"}, symbols |-> {"BTC/USDT"},
              prices |-> {1}, amounts |-> {1},
              max_orders |-> MaxOrders - 1, in_flight |-> MaxInFlight, sockets |-> {"w1"},
              stalled |-> {}, workers |-> {"p1"}, fine |-> FALSE]
    /\ InitEngine

NextProgress ==
    \/ \E w \in env.workers, u \in env.owners, s \in env.symbols, t \in OrderType,
          p \in env.prices, a \in env.amounts :
          CreateOrder(w, u, s, t, p, a)
    \/ \E call \in creating : OrderCreate(call)
    \/ \E o \in 1..MaxOrders : PlaceAcquire(o)
    \/ \E o \in 1..MaxOrders : PlaceStep(o)
    \/ \E w \in env.workers, u \in env.owners, id \in 1..MaxOrders : CancelCall(w, u, id)
    \/ \E u \in env.owners : CancelEnter(u)
    \/ \E u \in env.owners : CancelStep(u)
    \/ \E w \in env.workers, c \in env.sockets, s \in env.symbols : WsConnect(w, c, s)
    \/ \E s \in env.symbols : CacheExpire(s)

\* The event loop resumes every coroutine whose await has completed (weak
\* fairness of the steps), and asyncio.Lock wakes its waiters in the order
\* of their arrival, so a waiter is not passed over for ever (strong
\* fairness of the acquisitions).
Scheduling ==
    /\ \A o \in 1..MaxOrders : SF_vars(PlaceAcquire(o))
    /\ \A o \in 1..MaxOrders : WF_vars(PlaceStep(o))
    /\ \A u \in Users : SF_vars(CancelEnter(u))
    /\ \A u \in Users : WF_vars(CancelStep(u))

SpecProgress == InitProgress /\ [][NextProgress]_vars /\ Scheduling

\* Two websocket clients connect, and one of them stops reading, so that a
\* send to it never completes.
InitStalled ==
    /\ env = [owners |-> {"u1"}, callers |-> {"u1"}, symbols |-> {"BTC/USDT"},
              prices |-> {1}, amounts |-> {1},
              max_orders |-> MaxOrders - 1, in_flight |-> MaxInFlight,
              sockets |-> {"w1", "w2"},
              stalled |-> {"w1"}, workers |-> {"p1"}, fine |-> FALSE]
    /\ InitEngine

SpecStalled == InitStalled /\ [][NextProgress]_vars /\ Scheduling

\* gunicorn_conf.py line 6, `workers = settings.WORKERS`: gunicorn starts that
\* many worker processes, here two, and hands each request to one of them.
\* The rows and the cache are common to them; the engine, with its lists and
\* its lock, is each worker's own.
InitWorkers ==
    /\ env = [owners |-> {"u1"}, callers |-> {"u1"}, symbols |-> {"BTC/USDT"},
              prices |-> {1}, amounts |-> 1..MaxAmount,
              max_orders |-> MaxOrders - 1, in_flight |-> MaxInFlight, sockets |-> {},
              stalled |-> {}, workers |-> {"p1", "p2"}, fine |-> FALSE]
    /\ InitEngine

SpecWorkers == InitWorkers /\ [][Next]_vars

\* Two users submit orders on two symbols.
InitParties ==
    /\ env = [owners |-> {"u1", "u2"}, callers |-> {"u1"},
              symbols |-> {"BTC/USDT", "ETH/USDT"},
              prices |-> 1..MaxPrice, amounts |-> 1..MaxAmount,
              max_orders |-> MaxOrders - 1, in_flight |-> MaxInFlight, sockets |-> {},
              stalled |-> {}, workers |-> {"p1"}, fine |-> FALSE]
    /\ InitEngine

SpecParties == InitParties /\ [][Next]_vars

\* The cache server may be out of reach when it is called.
InitCacheDown ==
    /\ env = [owners |-> {"u1"}, callers |-> {"u1"}, symbols |-> {"BTC/USDT"},
              prices |-> {1}, amounts |-> 1..MaxAmount,
              max_orders |-> MaxOrders - 1, in_flight |-> MaxInFlight, sockets |-> {},
              stalled |-> {}, workers |-> {"p1"}, fine |-> FALSE]
    /\ InitEngine

NextCacheDown ==
    \/ Next
    \/ \E o \in 1..MaxOrders : PlaceCacheFailure(o)
    \/ \E u \in Users : CancelCacheFailure(u)
    \/ \E w \in env.workers, s \in env.symbols : ReadOrderBook(w, s)
    \/ \E k \in 1..MaxReads : ReadCacheGet(k)
    \/ \E k \in 1..MaxReads : ReadGetOrCreate(k)
    \/ \E k \in 1..MaxReads : ReadCacheSet(k)
    \/ \E k \in 1..MaxReads : ReadCacheFailure(k)

SpecCacheDown == InitCacheDown /\ [][NextCacheDown]_vars

\* Prices are quoted to the eighth decimal place around 100000000000.
InitDecimals ==
    /\ env = [owners |-> {"u1"}, callers |-> {"u1"}, symbols |-> {"BTC/USDT"},
              prices |-> 1..MaxPrice, amounts |-> 1..MaxAmount,
              max_orders |-> MaxOrders - 1, in_flight |-> MaxInFlight, sockets |-> {},
              stalled |-> {}, workers |-> {"p1"}, fine |-> TRUE]
    /\ InitEngine

SpecDecimals == InitDecimals /\ [][Next]_vars

\* A websocket client connects and sends messages, and the cache server may
\* be out of reach when its handler calls it.
InitSubscription ==
    /\ env = [owners |-> {"u1"}, callers |-> {"u1"}, symbols |-> {"BTC/USDT"},
              prices |-> {1}, amounts |-> {1},
              max_orders |-> MaxOrders - 1, in_flight |-> MaxInFlight, sockets |-> {"w1"},
              stalled |-> {}, workers |-> {"p1"}, fine |-> FALSE]
    /\ InitEngine

NextSubscription ==
    \/ NextSubscribers
    \/ \E c \in env.sockets : WsSubscribe(c)
    \/ \E c \in env.sockets : WsBadMessage(c)
    \/ \E c \in env.sockets : WsCacheGet(c)
    \/ \E c \in env.sockets : WsGetOrCreate(c)
    \/ \E c \in env.sockets : WsCacheSet(c)
    \/ \E c \in env.sockets : WsSend(c)
    \/ \E c \in env.sockets : WsCacheFailure(c)

SpecSubscription == InitSubscription /\ [][NextSubscription]_vars

\* ================================================================== claims
RECURSIVE SumAmounts(_)
SumAmounts(ts) == IF ts = <<>> THEN 0 ELSE Head(ts).amount + SumAmounts(Tail(ts))

\* the awaits of broadcast_order_book: those of get_order_book, and the
\* send_json of its loop
BroadcastOrderBookCalls == {"cache_get", "get_or_create", "cache_set",
                            "broadcast_order_book"}

\* pcs at which a place_order call holds the lock
PlaceLocked == PersistenceCalls \cup {"broadcast_trade"} \cup BroadcastOrderBookCalls

\* pcs at which a cancel_order call holds the lock
CancelLocked == {"get", "save"} \cup BroadcastOrderBookCalls

\* the lock of some worker's engine is held
Locked == \E w \in Workers : locked[w]

\* the place_order call of o returns in this step
PlaceReturns(o) == pc[o] \in PlaceLocked /\ pc'[o] = "done"

ValidOrder(o) == orders[o].amount > 0 /\ orders[o].price > 0

Remainder(o) == orders[o].amount - mem[o].filled_amount

Opposite(t) == IF t = BUY THEN SELL ELSE BUY

\* price p of a resting order crosses the incoming order o
Crosses(o, p) ==
    IF orders[o].order_type = BUY THEN p <= orders[o].price ELSE p >= orders[o].price

\* the trades of the place_order call of o: those returned or appended so
\* far, and the one created in the running iteration
CallTrades(o) == loc[o].trades \o loc[o].trade

\* the resting order of a trade of the call of o
MakerOf(o, t) == IF t.buy_order = o THEN t.sell_order ELSE t.buy_order

\* C1: when place_order returns for a valid order, the amounts of the
\* returned trades sum to at most order.amount, and order.filled_amount (the
\* object's and the persisted one) is exactly that sum.
C1_FilledEqualsTradeSum ==
    [][\A o \in Ids :
          (PlaceReturns(o) /\ ValidOrder(o)) =>
              /\ SumAmounts(loc'[o].trades) <= orders[o].amount
              /\ mem'[o].filled_amount = SumAmounts(loc'[o].trades)
              /\ db'[o].filled_amount = SumAmounts(loc'[o].trades)]_vars

\* a call has returned two trades
C1_Witness ==
    \E o \in Ids : pc[o] = "done" /\ ValidOrder(o) /\ Len(loc[o].trades) = 2

\* C2: every trade created by place_order carries the price of the resting
\* order it was matched against and not the incoming order's, for incoming
\* buys and incoming sells.
C2_MakerPrice ==
    \A k \in 1..Len(trades) :
        /\ \E o \in Ids : \E i \in 1..Len(CallTrades(o)) : CallTrades(o)[i] = trades[k]
        /\ \A o \in Ids : \A i \in 1..Len(CallTrades(o)) :
              CallTrades(o)[i] = trades[k] =>
                  trades[k].price = orders[MakerOf(o, trades[k])].price

\* an incoming buy whose limit is above the resting sell's price has traded
C2_Witness ==
    \E o \in Ids : \E i \in 1..Len(loc[o].trades) :
        /\ orders[o].order_type = BUY
        /\ loc[o].trades[i].buy_order = o
        /\ orders[o].price > orders[loc[o].trades[i].sell_order].price

\* a resting order that the incoming order o could trade with: opposite side,
\* same symbol, open, with something left, at a crossing price
Eligible(o, r) ==
    /\ InList(active_orders, r)
    /\ orders[r].symbol = orders[o].symbol
    /\ orders[r].order_type = Opposite(orders[o].order_type)
    /\ mem[r].status \in {PENDING, PARTIALLY_FILLED}
    /\ Remainder(r) > 0
    /\ Crosses(o, orders[r].price)

\* price p is strictly better for the incoming order o than price q
Better(o, p, q) == IF orders[o].order_type = BUY THEN p < q ELSE p > q

\* C3: best price first: an incoming order is never about to trade with a
\* resting order while an eligible resting order with a strictly better price
\* still has a remainder.
C3_BestPriceFirst ==
    \A o \in Ids :
        pc[o] = "trade_create" =>
            ~ \E r \in Ids :
                /\ Eligible(o, r)
                /\ Better(o, orders[r].price,
                          orders[Head(loc[o].matching_orders)].price)

\* C4: time priority: an incoming order is never about to trade with a resting
\* order while an eligible resting order of the same price that was created
\* earlier still has a remainder.
C4_TimePriority ==
    \A o \in Ids :
        pc[o] = "trade_create" =>
            LET m == Head(loc[o].matching_orders)
            IN  ~ \E r \in Ids :
                    /\ Eligible(o, r)
                    /\ orders[r].price = orders[m].price
                    /\ orders[r].created_at < orders[m].created_at

\* C5: when place_order is about to return with the incoming order not fully
\* filled, no resting opposite-side order with a remainder crosses it.
C5_NoCrossingLeft ==
    \A o \in Ids :
        (pc[o] \in BroadcastOrderBookCalls /\ Remainder(o) > 0) =>
            ~ \E r \in Ids : r # o /\ Eligible(o, r)

\* C6: terminal states are absorbing: once the persisted status of an order is
\* filled or cancelled, no step changes its persisted status or filled_amount.
C6_TerminalAbsorbing ==
    [][\A o \in Ids :
          db[o].status \in {FILLED, CANCELLED} => db'[o] = db[o]]_vars

\* C7: once cancel_order has returned True for an order, the order is
\* cancelled, is not in active_orders, and no trade created afterwards
\* references it.
C7_CancelledStaysOut ==
    [][/\ \A o \in cancel_ok' :
             /\ db'[o].status = CANCELLED
             /\ ~InList(active_orders', o)
       /\ Len(trades') > Len(trades) =>
             LET t == trades'[Len(trades')]
             IN  t.buy_order \notin cancel_ok /\ t.sell_order \notin cancel_ok]_vars

\* the callers that are between lock acquisition and lock release
InCritical ==
    {<<"place_order", o>> : o \in {i \in Ids : pc[i] \in PlaceLocked}}
      \cup {<<"cancel_order", u>> : u \in {v \in Users : cpc[v] \in CancelLocked}}

\* the step is taken by caller c
StepOf(c) ==
    IF c[1] = "place_order" THEN pc'[c[2]] # pc[c[2]] ELSE cpc'[c[2]] # cpc[c[2]]

\* the aggregates of a symbol, whether or not its row has been created
Aggregates(b) == [b EXCEPT !.exists = TRUE]

\* the resting set, an existing order's state or the aggregates change
EngineStateChanges ==
    \/ active_orders' # active_orders
    \/ \E s \in Symbols : Aggregates(book'[s]) # Aggregates(book[s])
    \/ \E o \in Ids : db'[o] # db[o] \/ mem'[o] # mem[o]

\* C8: at most one place_order or cancel_order is between lock acquisition
\* and release, the lock is held for as long as one is, the resting set, the
\* orders' states and the aggregates change only under the lock, and while a
\* caller holds it every such change is a step of that caller.
C8_MutualExclusion ==
    [][/\ Cardinality(InCritical) <= 1
       /\ Cardinality(InCritical') <= 1
       /\ (InCritical # {}) => Locked
       /\ EngineStateChanges => Locked'
       /\ \A c \in InCritical : EngineStateChanges => StepOf(c)]_vars

\* a match is between its first and its second trade
C8_Witness ==
    \E o \in Ids :
        /\ pc[o] = "trade_create"
        /\ Len(loc[o].trades) = 1
        /\ Locked

\* status as a function of the fill
StatusOfFill(st, o) ==
    /\ st.status = FILLED <=> st.filled_amount = orders[o].amount
    /\ st.status = PARTIALLY_FILLED <=>
          (0 < st.filled_amount /\ st.filled_amount < orders[o].amount)
    /\ st.status = PENDING <=> st.filled_amount = 0

\* C9: for every order that is not cancelled, the status (of the object and as
\* persisted) is the function of the fill given by the state machine.
C9_StatusFunctionOfFill ==
    \A o \in Ids :
        /\ mem[o].status # CANCELLED => StatusOfFill(mem[o], o)
        /\ db[o].status # CANCELLED => StatusOfFill(db[o], o)

\* C10: every order, in memory and as persisted, has 0 <= filled_amount <= amount.
C10_FilledWithinAmount ==
    \A o \in Ids :
        /\ 0 <= mem[o].filled_amount /\ mem[o].filled_amount <= orders[o].amount
        /\ 0 <= db[o].filled_amount /\ db[o].filled_amount <= orders[o].amount

\* the order id a cancel_order call of u, waiting at get_or_none, was given
Target(u) == cloc[u].order_id

\* the cancel_order call of u returns False in this step: it leaves the lock
\* without having gone on to the save, and no True is recorded for it
ReturnsFalse(u) ==
    /\ cpc[u] = "get" /\ cpc'[u] = "idle"
    /\ ~Locked'
    /\ cancel_ok' = cancel_ok

\* nothing of the engine, of the rows or of the event log changes in this step
NothingChanged ==
    UNCHANGED <<orders, db, mem, active_orders, trades, book, cache, sent,
                websocket_connections>>

\* C11: cancel_order by the owner on an order whose status is already
\* cancelled or filled returns false and changes nothing: no order field, the
\* resting set, the book aggregates, and no event is emitted.
C11_CancelIdempotent ==
    [][\A u \in Users :
          (/\ cpc[u] = "get" /\ cpc'[u] # "get"
           /\ Target(u) \in Ids
           /\ orders[Target(u)].user = u
           /\ db[Target(u)].status \in {CANCELLED, FILLED}) =>
              ReturnsFalse(u) /\ NothingChanged]_vars

\* an owner's cancel of an order it has already cancelled holds the lock,
\* while a subscriber is registered
C11_Witness ==
    \E u \in Users :
        /\ cpc[u] = "get"
        /\ Target(u) \in Ids
        /\ orders[Target(u)].user = u
        /\ db[Target(u)].status = CANCELLED
        /\ Target(u) \in cancel_ok
        /\ websocket_connections # <<>>

\* C12: cancel_order on an order id that does not exist, or on an order of
\* another user, returns false and leaves every order's status, the resting
\* set and the book aggregates unchanged.
C12_CancelFailsClosed ==
    [][\A u \in Users :
          (/\ cpc[u] = "get" /\ cpc'[u] # "get"
           /\ (Target(u) \notin Ids \/ orders[Target(u)].user # u)) =>
              ReturnsFalse(u) /\ NothingChanged]_vars

\* a non-owner's cancel of a resting pending order holds the lock
C12_Witness ==
    \E u \in Users :
        /\ cpc[u] = "get"
        /\ Target(u) \in Ids
        /\ orders[Target(u)].user # u
        /\ db[Target(u)].status = PENDING
        /\ InList(active_orders, Target(u))

\* an order id no row has
UnknownId == Len(orders) + 1

\* C13: a cancel_order by a non-owner on an existing order gets the same
\* return value and HTTP response as a cancel_order on an unknown id would get
\* in the same state, emits the same events (none) and leaves the requester
\* with the same state.
C13_NonOwnerAsUnknown ==
    [][\A u \in Users :
          (/\ cpc[u] = "get" /\ cpc'[u] # "get"
           /\ Target(u) \in Ids
           /\ orders[Target(u)].user # u) =>
              /\ Refused(GetOrNone(Target(u), u)) = Refused(GetOrNone(UnknownId, u))
              /\ CancelResponse(cpc'[u] = "save") =
                     CancelResponse(~Refused(GetOrNone(UnknownId, u)))
              /\ sent' = sent
              /\ cpc'[u] = "idle" /\ cloc'[u] = NoCancelLocals
              /\ cancel_ok' = cancel_ok]_vars

\* a non-owner's cancel of a partially filled order holds the lock while an
\* unknown id could have been asked for instead
C13_Witness ==
    \E u \in Users :
        /\ cpc[u] = "get"
        /\ Target(u) \in Ids
        /\ orders[Target(u)].user # u
        /\ db[Target(u)].status = PARTIALLY_FILLED
        /\ UnknownId <= MaxOrders

\* C14: no order with a non-positive price or amount is persisted, enters
\* place_order's critical section, rests or trades.
C14_InvalidRejected ==
    /\ \A o \in Ids : ValidOrder(o)
    /\ \A o \in Ids : pc[o] \in PlaceLocked => ValidOrder(o)
    /\ \A i \in 1..Len(active_orders) : ValidOrder(active_orders[i])
    /\ \A k \in 1..Len(trades) :
          ValidOrder(trades[k].buy_order) /\ ValidOrder(trades[k].sell_order)

\* C15: when a persistence call of the matching loop fails, place_order ends
\* there (no further trade), what the earlier iterations have committed stays,
\* and the caller receives as result the list of the trades that did complete.
C15_PartialSuccess ==
    [][\A o \in Ids :
          (pc[o] \in PersistenceCalls /\ pc'[o] \notin PlaceLocked) =>
              /\ trades' = trades /\ db' = db /\ book' = book
              /\ pc'[o] = "done"
              /\ loc'[o].trades = loc[o].trades]_vars

\* a send_json of a broadcast comes back in this step
BroadcastStep ==
    /\ sent' # sent
    /\ \/ \E o \in Ids : pc[o] \in {"broadcast_trade", "broadcast_order_book"}
       \/ \E u \in Users : cpc[u] = "broadcast_order_book"

\* the loop of the broadcast that the place_order of o is in ends in this step
BroadcastEnds(o) ==
    pc[o] \in {"broadcast_trade", "broadcast_order_book"} /\ pc'[o] # pc[o]

\* the loop of the broadcast of the cancel_order of u ends in this step
CancelBroadcastEnds(u) == cpc[u] = "broadcast_order_book" /\ cpc'[u] # cpc[u]

\* the event that the broadcast of the place_order of o sends
BroadcastMessage(o) ==
    IF pc[o] = "broadcast_trade"
    THEN TradeMessage(loc[o].trade[1])
    ELSE OrderBookMessage(loc[o].data[1])

\* the delivery of message to some connection has failed in this operation
FailingSubscriber(message) ==
    \E k \in 1..Len(sent') : sent'[k].message = message /\ ~sent'[k].ok

\* connection c has been sent message in this operation, and it was delivered
SentTo(c, message) == \E k \in 1..Len(sent') : sent'[k] = Delivery(c, TRUE, message)

\* the connections of a worker's list that are registered when the loop ends
\* and to which a delivery succeeds
Registered(self) ==
    LET own == ConnectionsOf(self, websocket_connections')
    IN  {own[i] : i \in 1..Len(own)} \ broken

\* C16: when an event is broadcast and delivery to one registered subscriber
\* fails, every other registered subscriber is sent that event, wherever it
\* stands in the list.
C16_SubscriberIsolation ==
    [][/\ \A o \in Ids :
             (BroadcastEnds(o) /\ FailingSubscriber(BroadcastMessage(o))) =>
                 \A c \in Registered(orders[o].worker) : SentTo(c, BroadcastMessage(o))
       /\ \A u \in Users :
             (CancelBroadcastEnds(u)
               /\ FailingSubscriber(OrderBookMessage(cloc[u].data[1]))) =>
                 \A c \in Registered(cloc[u].worker[1]) :
                     SentTo(c, OrderBookMessage(cloc[u].data[1]))]_vars

\* the trades of the table that order o takes part in
TradesOf(o) == {k \in 1..Len(trades) : trades[k].buy_order = o \/ trades[k].sell_order = o}

\* the send_json that comes back in this step has raised
SendFails == sent' # sent /\ ~sent'[Len(sent')].ok

\* a send_json of the operation that ends in this step has raised
SendFailed == \E k \in 1..Len(sent') : ~sent'[k].ok

\* C17: a broadcast with a failing delivery does not fail the operation:
\* place_order goes on after a trade event, returns every trade it made and
\* has rested the remainder, and cancel_order returns true.
C17_DeliveryFailureContained ==
    [][/\ \A o \in Ids :
             (pc[o] = "broadcast_trade" /\ SendFails) =>
                 /\ pc'[o] \in {"broadcast_trade", "trade_create", "cache_get"}
                 /\ loc'[o].trades = loc[o].trades
                 /\ Locked'
                 /\ (pc'[o] = "cache_get" /\ loc[o].remaining > 0) =>
                        InList(active_orders', o)
       /\ \A o \in Ids :
             (pc[o] = "broadcast_order_book" /\ SendFails) =>
                 /\ pc'[o] \in {"broadcast_order_book", "done"}
                 /\ loc'[o].trades = loc[o].trades
       /\ \A o \in Ids :
             (pc[o] \in PlaceLocked /\ pc'[o] \notin PlaceLocked /\ SendFailed) =>
                 /\ pc'[o] = "done"
                 /\ Len(loc'[o].trades) = Cardinality(TradesOf(o))
                 /\ loc[o].remaining > 0 => InList(active_orders', o)
       /\ \A u \in Users :
             (cpc[u] = "broadcast_order_book" /\ SendFails) =>
                 /\ cpc'[u] \in {"broadcast_order_book", "idle"}
                 /\ cpc'[u] = "idle" => cloc[u].order_id \in cancel_ok']_vars

\* a place_order has returned its trade and rested its remainder although the
\* delivery of its order-book event failed
C17_Witness ==
    \E o \in Ids :
        /\ pc[o] = "done"
        /\ loc[o].trades # <<>>
        /\ InList(active_orders, o)
        /\ \E k \in 1..Len(sent) : ~sent[k].ok /\ sent[k].message.type = "order_book"

\* C18: every order-book event sent at the end of a place_order or of a
\* successful cancel_order carries the order book as computed from the state
\* the operation leaves behind, whatever the cache holds.
C18_SnapshotAfterOperation ==
    [][\A k \in (Len(sent) + 1)..Len(sent') :
          sent'[k].message.type = "order_book" =>
              \A w \in env.workers, s \in env.symbols :
                  sent'[k].message.data.symbol = s =>
                      sent'[k].message.data = OrderBookData(w, s)']_vars

\* the resting orders of one side of a symbol that still have a remainder
RestingWithRemainder(symbol, order_type) ==
    {o \in Ids : /\ InList(active_orders, o)
                 /\ orders[o].symbol = symbol
                 /\ orders[o].order_type = order_type
                 /\ mem[o].status \in {PENDING, PARTIALLY_FILLED}
                 /\ Remainder(o) > 0}

\* C19: while no operation is running, the bids (asks)
\* of a freshly computed order book are exactly the resting buy (sell) orders
\* of the symbol with a remainder, pending or partially filled, one entry
\* each, with amount = amount - filled_amount.
C19_SnapshotListsResting ==
    ~Locked =>
        \A w \in env.workers, s \in env.symbols, t \in OrderType :
            LET ids == ListedOrders(w, s, t)
                side == IF t = BUY THEN OrderBookData(w, s).bids
                        ELSE OrderBookData(w, s).asks
            IN  /\ {ids[i] : i \in 1..Len(ids)} = RestingWithRemainder(s, t)
                /\ Len(ids) = Cardinality(RestingWithRemainder(s, t))
                /\ Len(side) = Len(ids)
                /\ \A i \in 1..Len(ids) :
                      side[i] = [price  |-> Str(orders[ids[i]].price),
                                 amount |-> Str(Remainder(ids[i]))]

\* C20: a freshly computed order book has its bids in descending and its asks
\* in ascending order of price, and entries of equal price in the order of
\* their orders' creation (two equal entries may come in either order).
C20_SnapshotOrder ==
    \A w \in env.workers, s \in env.symbols, t \in OrderType :
        LET ids == ListedOrders(w, s, t)
        IN  \A i, j \in 1..Len(ids) :
                i < j =>
                    /\ IF t = BUY
                       THEN orders[ids[i]].price >= orders[ids[j]].price
                       ELSE orders[ids[i]].price <= orders[ids[j]].price
                    /\ (/\ orders[ids[i]].price = orders[ids[j]].price
                        /\ BookEntry(ids[i]) # BookEntry(ids[j])) =>
                           orders[ids[i]].created_at < orders[ids[j]].created_at

\* C21: once a trade has updated a symbol's order book, last_price, high_24h
\* and low_24h are all set and high_24h >= last_price >= low_24h.
C21_HighLastLow ==
    \A s \in Symbols :
        (book[s].last_price # None \/ book[s].high_24h # None \/ book[s].low_24h # None
            \/ book[s].volume_24h # 0) =>
            /\ book[s].last_price # None
            /\ book[s].high_24h # None
            /\ book[s].low_24h # None
            /\ book[s].high_24h[1] >= book[s].last_price[1]
            /\ book[s].last_price[1] >= book[s].low_24h[1]

\* the last trade of a symbol was below an earlier one
C21_Witness ==
    \E s \in Symbols :
        /\ book[s].last_price # None /\ book[s].high_24h # None
        /\ book[s].high_24h[1] > book[s].last_price[1]

\* C22: from one order-book update to the next, high_24h never decreases and
\* low_24h never increases, and neither is unset again.
C22_HighLowMonotone ==
    [][\A s \in Symbols :
          /\ book[s].high_24h # None =>
                book'[s].high_24h # None /\ book'[s].high_24h[1] >= book[s].high_24h[1]
          /\ book[s].low_24h # None =>
                book'[s].low_24h # None /\ book'[s].low_24h[1] <= book[s].low_24h[1]]_vars

\* the last trade of a symbol was above an earlier one
C22_Witness ==
    \E s \in Symbols :
        /\ book[s].last_price # None /\ book[s].low_24h # None
        /\ book[s].low_24h[1] < book[s].last_price[1]

RECURSIVE SumMakerAmounts(_, _)
\* the amounts of the resting orders that the trades ts of the call of o
\* were made with
SumMakerAmounts(o, ts) ==
    IF ts = <<>> THEN 0
    ELSE orders[MakerOf(o, Head(ts))].amount + SumMakerAmounts(o, Tail(ts))

RECURSIVE SumRemainders(_)
SumRemainders(lst) ==
    IF lst = <<>> THEN 0 ELSE Remainder(Head(lst)) + SumRemainders(Tail(lst))

\* every resting order matched by the call of o but the last one is filled,
\* and no resting order was matched twice
MakersFilledButLast(o) ==
    LET ts == IF pc[o] = "broadcast_trade" THEN loc[o].trades ELSE CallTrades(o)
    IN  /\ \A i \in 1..(Len(ts) - 1) : mem[MakerOf(o, ts[i])].status = FILLED
        /\ \A i, j \in 1..Len(ts) : i # j => MakerOf(o, ts[i]) # MakerOf(o, ts[j])

\* C23: in one place_order call of a valid order every trade amount is the
\* smaller of the taker's and the resting order's remainder at that step;
\* every matched resting order but possibly the last is left filled (so at
\* most one is left partially filled); and when the call returns the taker is
\* filled if its candidates' remainders added up to at least its amount.
C23_SequentialFill ==
    [][\A o \in Ids : ValidOrder(o) =>
          /\ (pc[o] = "trade_create" /\ pc'[o] = "save_order") =>
                LET m == Head(loc[o].matching_orders)
                IN  /\ loc'[o].trade # None
                    /\ loc'[o].trade[1].amount =
                           Min(loc[o].remaining, orders[m].amount - mem[m].filled_amount)
          /\ MakersFilledButLast(o)'
          /\ PlaceReturns(o) =>
                (SumMakerAmounts(o, loc[o].trades) + SumRemainders(GetMatchingOrders(o))
                     >= orders[o].amount
                 => mem'[o].status = FILLED)]_vars

\* two resting orders were matched by one call: the first is filled, the
\* second partially filled, the taker filled
C23_Witness ==
    \E o \in Ids :
        /\ pc[o] = "done"
        /\ Len(loc[o].trades) = 2
        /\ mem[MakerOf(o, loc[o].trades[1])].status = FILLED
        /\ mem[MakerOf(o, loc[o].trades[2])].status = PARTIALLY_FILLED
        /\ mem[o].status = FILLED

\* a resting order of the opposite side whose price crosses the incoming
\* order o and that has a remainder
CrossingResting(o) ==
    {m \in Ids : /\ InList(active_orders, m)
                 /\ orders[m].symbol = orders[o].symbol
                 /\ orders[m].order_type = Opposite(orders[o].order_type)
                 /\ Crosses(o, orders[m].price)
                 /\ mem[m].status \in {PENDING, PARTIALLY_FILLED}
                 /\ Remainder(m) > 0}

\* C24: when place_order returns normally for a valid order, the order (the
\* object the engine holds) is in the resting set, once, exactly when it has
\* a remainder; a rested order is pending if nothing of it was filled and
\* partially filled otherwise; and an order that found no crossing resting
\* order when it took the lock makes no trade and rests as pending.
C24_RestingRule ==
    [][\A o \in Ids : ValidOrder(o) =>
          /\ PlaceReturns(o) =>
                /\ InList(active_orders', o) <=> Remainder(o)' > 0
                /\ Len(SelectSeq(active_orders', LAMBDA m : m = o)) <= 1
                /\ InList(active_orders', o) =>
                       mem'[o].status = (IF mem'[o].filled_amount = 0
                                         THEN PENDING ELSE PARTIALLY_FILLED)
          /\ (pc[o] = "created" /\ pc'[o] # "created" /\ CrossingResting(o) = {}) =>
                /\ pc'[o] = "cache_get"
                /\ loc'[o].trades = <<>>
                /\ InList(active_orders', o)
                /\ mem'[o].status = PENDING]_vars

\* a call has returned with a trade and has left its order resting, partially
\* filled
C24_Witness ==
    \E o \in Ids :
        /\ pc[o] = "done"
        /\ loc[o].trades # <<>>
        /\ InList(active_orders, o)
        /\ mem[o].status = PARTIALLY_FILLED
        /\ Remainder(o) > 0

\* the trades of a symbol, in creation order
TradesOfSymbol(s) == SelectSeq(trades, LAMBDA t : t.symbol = s)

\* C29: while no operation is running, each symbol's volume_24h is the sum of
\* the amounts of its trades, last_price the price of its latest trade, and
\* high_24h / low_24h the largest / smallest price of its trades (all unset
\* while it has no trade); the symbol's row exists once a place_order on it
\* has returned.
C29_AggregatesMatchTrades ==
    ~Locked =>
        \A s \in Symbols :
            LET ts == TradesOfSymbol(s)
            IN  /\ book[s].volume_24h = SumAmounts(ts)
                /\ ts = <<>> =>
                      /\ book[s].last_price = None
                      /\ book[s].high_24h = None
                      /\ book[s].low_24h = None
                /\ ts # <<>> =>
                      /\ book[s].last_price = Some(ts[Len(ts)].price)
                      /\ book[s].high_24h # None
                      /\ \A i \in 1..Len(ts) : ts[i].price <= book[s].high_24h[1]
                      /\ \E i \in 1..Len(ts) : ts[i].price = book[s].high_24h[1]
                      /\ book[s].low_24h # None
                      /\ \A i \in 1..Len(ts) : ts[i].price >= book[s].low_24h[1]
                      /\ \E i \in 1..Len(ts) : ts[i].price = book[s].low_24h[1]
                /\ (\E o \in Ids : orders[o].symbol = s /\ pc[o] = "done") => book[s].exists

\* no operation is running and the symbol has two trades at different prices
C29_Witness ==
    /\ ~Locked
    /\ \E s \in Symbols :
          /\ Len(TradesOfSymbol(s)) = 2
          /\ TradesOfSymbol(s)[1].price # TradesOfSymbol(s)[2].price
          /\ book[s].volume_24h >= 2

\* C30: every trade has amount > 0, and within one place_order call no
\* resting order is the maker of two trades.
C30_TradesPositiveOnePerMaker ==
    /\ \A k \in 1..Len(trades) : trades[k].amount > 0
    /\ \A o \in Ids :
          /\ loc[o].trade # None => loc[o].trade[1].amount > 0
          /\ \A i, j \in 1..Len(loc[o].trades) :
                i # j => MakerOf(o, loc[o].trades[i]) # MakerOf(o, loc[o].trades[j])

\* after a cancel_order has succeeded, one call has made two trades
C30_Witness ==
    /\ cancel_ok # {}
    /\ \E o \in Ids :
          /\ Len(loc[o].trades) = 2
          /\ MakerOf(o, loc[o].trades[1]) # MakerOf(o, loc[o].trades[2])

\* the send_json calls of the broadcast that the place_order of o is in, the
\* one that comes back in this step included
CurrentSends(o) == SubSeq(sent', Len(sent') - loc[o].index + 1, Len(sent'))

\* the send_json calls of the broadcast of the cancel_order of u
CancelCurrentSends(u) == SubSeq(sent', Len(sent') - cloc[u].index + 1, Len(sent'))

\* the messages of a log of send_json calls
Messages(log) == [k \in 1..Len(log) |-> log[k].message]

\* every call of the log carries message msg, and no connection is sent it twice
OncePerConnection(log, msg) ==
    /\ \A k \in 1..Len(log) : log[k].message = msg
    /\ \A j, k \in 1..Len(log) : j # k => log[j].to # log[k].to

\* the events place_order has emitted or is emitting for order o, given the
\* trades it has made: one trade event per trade, in order, then the
\* order-book event once its data is there
ExpectedEvents(o) ==
    LET events == [k \in 1..Len(loc[o].trades) |-> TradeMessage(loc[o].trades[k])]
    IN  IF loc[o].data = None
        THEN events
        ELSE Append(events, OrderBookMessage(loc[o].data[1]))

\* a is a run of consecutive elements of b
IsInfix(a, b) ==
    \E i \in 0..Len(b) : i + Len(a) <= Len(b) /\ a = SubSeq(b, i + 1, i + Len(a))

\* C28: place_order emits one trade event for each trade, right after the
\* trade and before the next one is created, and one order-book event after
\* the last of them; a successful cancel_order emits one order-book event and
\* nothing else; events are emitted only by the holder of the lock, so that
\* the events of two operations do not interleave. What a connection gets
\* during one place_order is a run of consecutive events of that sequence.
C28_EventOrder ==
    [][/\ \A o \in Ids :
             /\ (pc[o] = "broadcast_trade" /\ sent' # sent) =>
                   /\ loc[o].trade # None
                   /\ loc[o].trade[1] = trades[Len(trades)]
                   /\ loc[o].trade[1] = loc[o].trades[Len(loc[o].trades)]
                   /\ OncePerConnection(CurrentSends(o), TradeMessage(loc[o].trade[1]))
                   /\ IsInfix(Messages(sent'), ExpectedEvents(o))
                   /\ InCritical = {<<"place_order", o>>} /\ Locked
             /\ (pc[o] = "broadcast_order_book" /\ sent' # sent) =>
                   /\ OncePerConnection(CurrentSends(o), OrderBookMessage(loc[o].data[1]))
                   /\ IsInfix(Messages(sent'), ExpectedEvents(o))
                   /\ InCritical = {<<"place_order", o>>} /\ Locked
             /\ (pc[o] = "order_book_save" /\ pc'[o] # pc[o]
                   /\ websocket_connections # <<>>) => pc'[o] = "broadcast_trade"
             /\ (PlaceReturns(o) /\ websocket_connections # <<>>) =>
                   pc[o] = "broadcast_order_book"
             /\ pc'[o] = "trade_create" =>
                   pc[o] \in {"created", "order_book_save", "broadcast_trade", "trade_create"}
             /\ pc'[o] = "done" => pc[o] \in BroadcastOrderBookCalls \cup {"done"}
       /\ \A u \in Users :
             /\ (cpc[u] = "broadcast_order_book" /\ sent' # sent) =>
                   /\ OncePerConnection(sent', OrderBookMessage(cloc[u].data[1]))
                   /\ sent' = CancelCurrentSends(u)
                   /\ InCritical = {<<"cancel_order", u>>} /\ Locked
             /\ (cpc[u] \in {"cache_get", "cache_set"} /\ cpc'[u] = "idle") =>
                   websocket_connections = <<>>
       /\ Len(trades') <= Len(trades) + 1
       /\ (sent' # sent /\ sent' # <<>>) => BroadcastStep
       /\ Len(trades') > Len(trades) =>
             \E o \in Ids : pc[o] = "trade_create" /\ pc'[o] = "save_order"]_vars

\* a connection has been sent, in this order, the two trade events and the
\* order-book event of one place_order
C28_Witness ==
    \E o \in Ids :
        /\ pc[o] = "done"
        /\ Len(loc[o].trades) = 2
        /\ Len(sent) = 3
        /\ \A k \in 1..3 : sent[k].ok /\ sent[k].to = "w1"
        /\ sent[1].message = TradeMessage(loc[o].trades[1])
        /\ sent[2].message = TradeMessage(loc[o].trades[2])
        /\ sent[3].message.type = "order_book"

\* the order book get_order_book will compute once the aggregates have caught
\* up with the trade the call of o has just made: what it computes now, with
\* the aggregates advanced by that trade
DataAfterTrade(o) ==
    LET s == orders[o].symbol
        t == loc[o].trade[1]
        b == UpdateOrderBook(book[s], t.price, t.amount)
    IN  [OrderBookData(orders[o].worker, s) EXCEPT !.last_price = StrOrNone(b.last_price),
                                 !.volume_24h = Str(b.volume_24h),
                                 !.high_24h = StrOrNone(b.high_24h),
                                 !.low_24h = StrOrNone(b.low_24h)]

\* C27: what get_order_book computes while a place_order is between the
\* mutations of one trade is the order book of the instant before that trade
\* or of the instant after its aggregate update, never a mix of the two.
C27_ConsistentSnapshot ==
    [][\A o \in Ids :
          (pc[o] = "trade_create" /\ pc'[o] = "save_order") =>
              \/ OrderBookData(orders[o].worker, orders[o].symbol)' =
                     OrderBookData(orders[o].worker, orders[o].symbol)
              \/ OrderBookData(orders[o].worker, orders[o].symbol)' =
                     DataAfterTrade(o)']_vars

\* a call is between its acquisition of the lock and its exit
Inside ==
    \/ \E o \in Ids : pc[o] \notin {"created", "done", "raised"}
    \/ \E u \in Users : cpc[u] \notin {"idle", "call"}

\* C26 (as stated): no operation blocks indefinitely. Every place_order that has been
\* called leaves (returned or raised) and every cancel_order that has been
\* called returns, so every waiter acquires the lock and every holder gives
\* it up; the lock is held exactly while a call is inside, so every exit
\* path releases it; each pass of the matching loop consumes one candidate
\* of the list computed when the lock was acquired, which is no longer than
\* the list of resting orders.
C26_NoIndefiniteBlocking ==
    /\ \A o \in 1..MaxOrders :
          (o \in Ids /\ pc[o] \notin {"done", "raised"})
              ~> (o \in Ids /\ pc[o] \in {"done", "raised"})
    /\ \A u \in Users : (cpc[u] # "idle") ~> (cpc[u] = "idle")
    /\ [](Locked <=> Inside)
    /\ [][\A o \in Ids :
            /\ (pc[o] = "created" /\ pc'[o] # "created") =>
                   Len(loc'[o].matching_orders) <= Len(active_orders)
            /\ (pc[o] \in {"order_book_save", "broadcast_trade"}
                  /\ pc'[o] \in {"trade_create", "cache_get"}) =>
                   Len(loc'[o].matching_orders) < Len(loc[o].matching_orders)
            /\ (pc[o] \notin {"created", "order_book_save", "broadcast_trade"}) =>
                   loc'[o].matching_orders = loc[o].matching_orders]_vars

\* C26 (finite form): a call that holds the lock is never left without a
\* step to take: one of its awaits can return or raise.
C26_HolderProceeds ==
    /\ \A o \in 1..MaxOrders :
          (o \in Ids /\ pc[o] \notin {"created", "done", "raised"}) => ENABLED PlaceStep(o)
    /\ \A u \in Users : (cpc[u] \notin {"idle", "call"}) => ENABLED CancelStep(u)

\* C25: there is one resting-order set per symbol whichever worker handles a
\* call: when place_order computes its candidates, every resting order that
\* passes the candidate test is among them; and when cancel_order has saved
\* the cancellation of a resting order, the order rests no longer.
C25_OneRestingSet ==
    [][/\ \A o \in Ids :
             (pc[o] = "created" /\ pc'[o] = "cache_get") =>
                 \A r \in Ids :
                     ~(InList(active_orders, r) /\ CandidateTest(o, r))
       /\ \A u \in Users :
             (cpc[u] = "save" /\ cpc'[u] = "cache_get") =>
                 ~InList(active_orders', cloc[u].order_id)]_vars

\* C31: every trade references a buy order as buy_order and a sell order as
\* sell_order, both of the trade's symbol; its buyer owns the buy order and
\* its seller the sell order; and the trade price lies between the sell
\* order's price and the buy order's price.
C31_TradeReferences ==
    \A k \in 1..Len(trades) :
        LET t == trades[k]
            b == orders[t.buy_order]
            a == orders[t.sell_order]
        IN  /\ b.order_type = BUY
            /\ a.order_type = SELL
            /\ b.symbol = t.symbol
            /\ a.symbol = t.symbol
            /\ t.buyer = b.user
            /\ t.seller = a.user
            /\ b.price >= t.price
            /\ t.price >= a.price

\* a sell of one user has traded below the price of the buy of another user
C31_Witness ==
    \E k \in 1..Len(trades) :
        /\ trades[k].buyer # trades[k].seller
        /\ orders[trades[k].buy_order].price > orders[trades[k].sell_order].price
        /\ trades[k].buy_order > trades[k].sell_order

\* C32: with the cache failing, place_order still returns (its trades made,
\* the remainder rested) and cancel_order still returns true for the order
\* it has cancelled.
C32_WorksWithoutCache ==
    [][/\ \A o \in Ids :
             (pc[o] \in BroadcastOrderBookCalls /\ pc'[o] \notin PlaceLocked) =>
                 pc'[o] = "done"
       /\ \A u \in Users :
             (cpc[u] \in BroadcastOrderBookCalls /\ cpc'[u] = "idle") =>
                 cloc[u].order_id \in cancel_ok']_vars

\* C33: event delivery does not block matching: a place_order or a
\* cancel_order that has come to a broadcast can always go on from it,
\* whatever the subscribers do with what is sent to them.
C33_DeliveryDoesNotBlock ==
    /\ \A o \in 1..MaxOrders :
          (o \in Ids /\ pc[o] = "broadcast_trade") => ENABLED BroadcastTrade(o)
    /\ \A o \in 1..MaxOrders :
          (o \in Ids /\ pc[o] = "broadcast_order_book") =>
              ENABLED PlaceBroadcastOrderBook(o)
    /\ \A u \in Users :
          (cpc[u] = "broadcast_order_book") => ENABLED CancelBroadcastOrderBook(u)

\* C34: in a freshly computed order book two entries of distinct prices are
\* ordered strictly by price, bids descending and asks ascending, and every
\* entry shows the exact difference amount - filled_amount.
C34_ExactDecimals ==
    \A w \in env.workers, s \in env.symbols, t \in OrderType :
        LET ids == ListedOrders(w, s, t)
        IN  /\ \A i, j \in 1..Len(ids) :
                  (i < j /\ orders[ids[i]].price # orders[ids[j]].price) =>
                      IF t = BUY
                      THEN orders[ids[i]].price > orders[ids[j]].price
                      ELSE orders[ids[i]].price < orders[ids[j]].price
            /\ \A i \in 1..Len(ids) :
                  BookSide(w, s, t)[i].amount = Str(Remainder(ids[i]))

\* C35: no trade event and no order-book event is sent to a connection
\* whose client has not sent a "subscribe" message.
C35_OnlySubscribed ==
    [][\A k \in (Len(sent) + 1)..Len(sent') : sent'[k].to \in subscribed]_vars

\* the persisted trades that reference order o, as a sequence
TradesReferencing(o) ==
    SelectSeq(trades, LAMBDA t : t.buy_order = o \/ t.sell_order = o)

\* C36: whenever no operation is running, also after a persistence call of
\* the matching loop has failed, each order's persisted filled_amount is the
\* sum of the amounts of the persisted trades that reference it, and the
\* in-memory copy of every resting order agrees with its persisted
\* filled_amount and status.
C36_Conservation ==
    ~Locked =>
        \A o \in Ids :
            /\ db[o].filled_amount = SumAmounts(TradesReferencing(o))
            /\ InList(active_orders, o) => mem[o] = db[o]

\* the orders, the resting membership and the aggregates of the symbols other
\* than s are the same after the step, and the trades the step adds are
\* between two orders of s
OtherSymbolsKept(s) ==
    /\ \A x \in Ids :
          orders[x].symbol # s =>
              /\ db'[x].status = db[x].status
              /\ db'[x].filled_amount = db[x].filled_amount
              /\ mem'[x] = mem[x]
              /\ \A w \in env.workers :
                    InList(ActiveOrders(w)', x) <=> InList(ActiveOrders(w), x)
    /\ \A r \in env.symbols \ {s} : Aggregates(book'[r]) = Aggregates(book[r])
    /\ \A k \in (Len(trades) + 1)..Len(trades') :
          /\ orders[trades'[k].buy_order].symbol = s
          /\ orders[trades'[k].sell_order].symbol = s

\* the order that the cancel_order call of user u is about
CancelledId(u) == IF cpc[u] = "idle" THEN cloc'[u].order_id ELSE cloc[u].order_id

\* C37: every step of a place_order on an order of symbol S, and every step
\* of a cancel_order on an order of symbol S, leaves the status and the
\* filled_amount of the orders of the other symbols, their membership of the
\* resting orders and the aggregates of the other symbols unchanged, and the
\* trades it creates are between two orders of S.
C37_SymbolIsolation ==
    [][/\ \A o \in Ids :
             pc'[o] # pc[o] => OtherSymbolsKept(orders[o].symbol)
       /\ \A u \in Users :
             (cpc'[u] # cpc[u] /\ CancelledId(u) \in Ids) =>
                 OtherSymbolsKept(orders[CancelledId(u)].symbol)]_vars

\* a place_order has returned without a trade while an order of another
\* symbol, of the opposite side and at a crossing price, rests
C37_Witness ==
    \E o \in Ids, x \in Ids :
        /\ pc[o] = "done"
        /\ orders[x].symbol # orders[o].symbol
        /\ orders[o].order_type = BUY /\ orders[x].order_type = SELL
        /\ orders[x].price <= orders[o].price
        /\ InList(active_orders, x)
        /\ x < o
        /\ mem[x].status = PENDING
        /\ trades = <<>>

====
